---- MODULE Spec2Model ----
(***************************************************************************)
(* Metrics engine of the NPS dashboard (utils.py).                         *)
(*                                                                         *)
(* A DataFrame is a pair (df, columns): df is the sequence of its rows,    *)
(* columns the set of its column labels.  A row is a record with one field *)
(* per column the metric functions read.  A categorical cell is a string,  *)
(* None when it is null.  A numeric cell is <<>> when it is NaN and <<v>>  *)
(* when it holds v.  Notes are counted in tenths (75 is the note 7.5),     *)
(* fleet sizes in units.  A float the code computes is kept exactly, as a  *)
(* fraction <<numerator, denominator>>, until the code rounds it.          *)
(*                                                                         *)
(* Every metric function is an operator of (df, columns) and every action  *)
(* is one call of a metric function on the loaded DataFrame; the call's    *)
(* outcome (the value returned, or the exception raised) is kept in out.   *)
(***************************************************************************)
EXTENDS Integers, Sequences, FiniteSets, TLC

VARIABLES df, columns, op, arg, out

vars == <<df, columns, op, arg, out>>

---------------------------------------------------------------------------
(* Cells                                                                   *)

None == "None"

NaN == <<>>

Num(v) == <<v>>

isna(cell) == cell = NaN

notna(cell) == cell # NaN

value(cell) == cell[1]

(* Outcome of a call: a returned value or a raised exception.              *)
Return(v) == [raised |-> "none", value |-> v]

Raise(e) == [raised |-> e, value |-> <<>>]

---------------------------------------------------------------------------
(* Bounds of the checked inputs                                            *)

MaxRowsNps == 4

MaxRowsPonderado == 3

MaxRowsNotas == 3

MaxRowsSegmento == 3

MaxRowsHeatmap == 3

MaxRowsDetratores == 3

MaxRuns == 4

MaxDecimais == 2

MaxChars == 3

MaxLenTexto == 5

MaxRowsComentarios == 2

MaxRowsValidar == 2

MaxRowsApp == 2

MaxPasses == 3

MaxRowsMetricas == 2

MaxChamadas == 3

MaxRowsTabela == 2

MaxRowsSidebar == 2

---------------------------------------------------------------------------
(* Rows                                                                    *)

Row(classif, nota, frota, tipo, ffrota, ftempo) ==
    [classificacao_empresa |-> classif,
     nota_media_empresa    |-> nota,
     qtd_frota             |-> frota,
     tipo_cliente          |-> tipo,
     faixa_frota           |-> ffrota,
     faixa_tempo_casa      |-> ftempo]

(* customer_id is a column of every loaded DataFrame; no metric function   *)
(* reads its values into a result, so that the rows do not carry them.     *)
AllColumns ==
    {"customer_id", "classificacao_empresa", "nota_media_empresa", "qtd_frota",
     "tipo_cliente", "faixa_frota", "faixa_tempo_casa"}

(* The three classifications, plus a null and a value outside the enum.    *)
Classificacoes == {"Promotor", "Neutro", "Detrator"}

ClassifCells == Classificacoes \cup {None, "Outro"}

SeqsUpTo(U, n) == UNION {[1..k -> U] : k \in 0..n}

(* df.empty: no rows or no columns.                                        *)
empty(d, cols) == Len(d) = 0 \/ cols = {}

(* len(df[df[col] == v])                                                   *)
CountEq(d, col, v) == Len(SelectSeq(d, LAMBDA r : r[col] = v))

---------------------------------------------------------------------------
(* Rounding.  Python's round(x, n) and numpy's round both send a value to  *)
(* the nearest multiple of 10^-n and a tie to the even one.                *)

RoundHalfEven(num, den) ==
    LET q == num \div den
        r == num - q * den
    IN  IF 2 * r < den THEN q
        ELSE IF 2 * r > den THEN q + 1
        ELSE IF q % 2 = 0 THEN q ELSE q + 1

(* round(x, 1) of the fraction x, in tenths.                               *)
round1(x) == RoundHalfEven(x[1] * 10, x[2])

(* round(x, 2) of the fraction x, in hundredths.                           *)
round2(x) == RoundHalfEven(x[1] * 100, x[2])

---------------------------------------------------------------------------
(* calcular_nps: the NPS in tenths of a point.                             *)

(* Variants of calcular_nps with one slip each: the percentages are over   *)
(* the classified rows only; the test of df.empty is missing; the Detrator *)
(* percentage is added.                                                    *)
calcular_nps_total_classificados(d, cols) ==
    IF empty(d, cols) THEN Return(0)
    ELSE IF "classificacao_empresa" \notin cols THEN Raise("KeyError")
    ELSE
      LET promotores == CountEq(d, "classificacao_empresa", "Promotor")
          detratores == CountEq(d, "classificacao_empresa", "Detrator")
          total == promotores + detratores
                   + CountEq(d, "classificacao_empresa", "Neutro")
      IN  IF total = 0 THEN Return(0)
          ELSE Return(round1(<<promotores * 100 - detratores * 100, total>>))

calcular_nps_sem_guarda(d, cols) ==
    IF "classificacao_empresa" \notin cols THEN Raise("KeyError")
    ELSE IF Len(d) = 0 THEN Raise("ZeroDivisionError")
    ELSE
      LET total == Len(d)
          promotores == CountEq(d, "classificacao_empresa", "Promotor")
          detratores == CountEq(d, "classificacao_empresa", "Detrator")
      IN  Return(round1(<<promotores * 100 - detratores * 100, total>>))

calcular_nps_soma(d, cols) ==
    IF empty(d, cols) THEN Return(0)
    ELSE IF "classificacao_empresa" \notin cols THEN Raise("KeyError")
    ELSE
      LET total == Len(d)
          promotores == CountEq(d, "classificacao_empresa", "Promotor")
          detratores == CountEq(d, "classificacao_empresa", "Detrator")
      IN  Return(round1(<<promotores * 100 + detratores * 100, total>>))

calcular_nps(d, cols) ==
    IF empty(d, cols) THEN Return(0)
    ELSE IF "classificacao_empresa" \notin cols THEN Raise("KeyError")
    ELSE
      LET total == Len(d)
          promotores == CountEq(d, "classificacao_empresa", "Promotor")
          detratores == CountEq(d, "classificacao_empresa", "Detrator")
          \* pct = (count / total) * 100, nps = pct_promotores - pct_detratores
          nps == <<promotores * 100 - detratores * 100, total>>
      IN  Return(round1(nps))

---------------------------------------------------------------------------
(* calcular_distribuicao_classificacao: each share in tenths of a percent. *)

(* Variant with one slip: the shares are over the classified rows only.    *)
calcular_distribuicao_sobre_classificados(d, cols) ==
    IF empty(d, cols)
    THEN Return([classif \in Classificacoes |-> 0])
    ELSE IF "classificacao_empresa" \notin cols THEN Raise("KeyError")
    ELSE
      LET total == CountEq(d, "classificacao_empresa", "Promotor")
                   + CountEq(d, "classificacao_empresa", "Neutro")
                   + CountEq(d, "classificacao_empresa", "Detrator")
      IN  Return([classif \in Classificacoes |->
                    IF total = 0 THEN 0
                    ELSE round1(<<CountEq(d, "classificacao_empresa", classif) * 100,
                                  total>>)])

calcular_distribuicao_classificacao(d, cols) ==
    IF empty(d, cols)
    THEN Return([classif \in Classificacoes |-> 0])
    ELSE IF "classificacao_empresa" \notin cols THEN Raise("KeyError")
    ELSE
      LET total == Len(d)
      IN  Return([classif \in Classificacoes |->
                    LET count == CountEq(d, "classificacao_empresa", classif)
                        pct == <<count * 100, total>>
                    IN  round1(pct)])

---------------------------------------------------------------------------
(* calcular_nps_ponderado: the fleet-weighted mean note, in hundredths.    *)

(* df.dropna(subset=['qtd_frota', 'nota_media_empresa'])                   *)
dropna_frota_nota(d) ==
    SelectSeq(d, LAMBDA r : notna(r.qtd_frota) /\ notna(r.nota_media_empresa))

(* (df_clean['nota_media_empresa'] * df_clean['qtd_frota']).sum(), tenths  *)
RECURSIVE soma_nota_frota(_)
soma_nota_frota(d) ==
    IF d = <<>> THEN 0
    ELSE value(Head(d).nota_media_empresa) * value(Head(d).qtd_frota)
         + soma_nota_frota(Tail(d))

(* df_clean['qtd_frota'].sum()                                             *)
RECURSIVE soma_qtd_frota(_)
soma_qtd_frota(d) ==
    IF d = <<>> THEN 0
    ELSE value(Head(d).qtd_frota) + soma_qtd_frota(Tail(d))

(* Variants with one slip each: the rows without a note are kept with the  *)
(* note 0; the test of a zero total fleet is missing, so that the division *)
(* by zero is attempted.                                                   *)
RECURSIVE soma_nota_frota_skipna(_)
soma_nota_frota_skipna(d) ==
    IF d = <<>> THEN 0
    ELSE (IF notna(Head(d).nota_media_empresa)
          THEN value(Head(d).nota_media_empresa) * value(Head(d).qtd_frota)
          ELSE 0)
         + soma_nota_frota_skipna(Tail(d))

calcular_nps_ponderado_sem_dropna(d, cols) ==
    IF empty(d, cols) \/ "qtd_frota" \notin cols \/ "nota_media_empresa" \notin cols
    THEN Return(0)
    ELSE
      LET df_clean == SelectSeq(d, LAMBDA r : notna(r.qtd_frota))
      IN  IF Len(df_clean) = 0 THEN Return(0)
          ELSE
            LET soma_ponderada == soma_nota_frota_skipna(df_clean)
                soma_frota == soma_qtd_frota(df_clean)
            IN  IF soma_frota = 0 THEN Return(0)
                ELSE Return(round2(<<soma_ponderada, soma_frota * 10>>))

calcular_nps_ponderado_sem_teste_zero(d, cols) ==
    IF empty(d, cols) \/ "qtd_frota" \notin cols \/ "nota_media_empresa" \notin cols
    THEN Return(0)
    ELSE
      LET df_clean == dropna_frota_nota(d)
      IN  IF Len(df_clean) = 0 THEN Return(0)
          ELSE
            LET soma_ponderada == soma_nota_frota(df_clean)
                soma_frota == soma_qtd_frota(df_clean)
            IN  IF soma_frota = 0 THEN Raise("ZeroDivisionError")
                ELSE Return(round2(<<soma_ponderada, soma_frota * 10>>))

calcular_nps_ponderado(d, cols) ==
    IF empty(d, cols) \/ "qtd_frota" \notin cols \/ "nota_media_empresa" \notin cols
    THEN Return(0)
    ELSE
      LET df_clean == dropna_frota_nota(d)
      IN  IF Len(df_clean) = 0 THEN Return(0)
          ELSE
            LET soma_ponderada == soma_nota_frota(df_clean)
                soma_frota == soma_qtd_frota(df_clean)
            IN  IF soma_frota = 0 THEN Return(0)
                ELSE
                  \* the notes are in tenths: the quotient is over 10 * fleet
                  LET nps_ponderado == <<soma_ponderada, soma_frota * 10>>
                  IN  Return(round2(nps_ponderado))

---------------------------------------------------------------------------
(* criar_distribuicao_notas: the rows (nota, quantidade) for nota 0..10.   *)

(* Series.round(): the nearest integer of a note in tenths, ties to even.  *)
nota_arredondada_metade_acima(cell) == (value(cell) + 5) \div 10

nota_arredondada(cell) == RoundHalfEven(value(cell), 10)

(* pd.DataFrame({'nota': range(11), 'quantidade': [0] * 11})               *)
distribuicao_zerada ==
    [k \in 1..11 |-> [nota |-> k - 1, quantidade |-> 0]]

(* value_counts() of the rounded notes, mapped on range(11): a rounded     *)
(* note outside 0..10 is mapped by no bucket, a bucket without a rounded   *)
(* note is filled with 0.                                                  *)
todas_notas(d) ==
    [k \in 1..11 |->
        [nota |-> k - 1,
         quantidade |->
            Len(SelectSeq(d, LAMBDA r :
                    nota_arredondada(r.nota_media_empresa) = k - 1))]]

criar_distribuicao_notas(d, cols) ==
    IF empty(d, cols) \/ "nota_media_empresa" \notin cols
    THEN Return(distribuicao_zerada)
    \* astype(int) raises IntCastingNaNError (a ValueError) on a NaN note
    ELSE IF \E i \in DOMAIN d : isna(d[i].nota_media_empresa)
    THEN Raise("ValueError")
    ELSE Return(todas_notas(d))

---------------------------------------------------------------------------
(* calcular_nps_por_segmento: the rows (segmento, nps, quantidade).        *)

(* df[coluna_segmento].dropna().unique(): the values that are not null, in *)
(* the order of their first row.                                           *)
RECURSIVE dropna_unique(_, _, _)
dropna_unique(d, col, seen) ==
    IF d = <<>> THEN <<>>
    ELSE LET v == Head(d)[col]
         IN  IF v = None \/ v \in seen
             THEN dropna_unique(Tail(d), col, seen)
             ELSE <<v>> \o dropna_unique(Tail(d), col, seen \cup {v})

(* df[df[coluna_segmento] == segmento]                                     *)
df_segmento(d, col, segmento) == SelectSeq(d, LAMBDA r : r[col] = segmento)

(* The list resultados, one dict per segment, in the order of the loop.    *)
resultados(d, cols, col) ==
    LET segmentos == dropna_unique(d, col, {})
    IN  [k \in 1..Len(segmentos) |->
            [segmento   |-> segmentos[k],
             nps        |-> calcular_nps(df_segmento(d, col, segmentos[k]), cols).value,
             quantidade |-> Len(df_segmento(d, col, segmentos[k]))]]

Ordens(n) ==
    {p \in [1..n -> 1..n] : \A i, j \in 1..n : i # j => p[i] # p[j]}

(* sort_values('nps', ascending=False) with the default sort algorithm,    *)
(* which is not stable: every order of the rows with nps descending is a   *)
(* possible outcome.                                                       *)
sort_values_nps_desc(rows) ==
    {[k \in 1..Len(rows) |-> rows[p[k]]] :
        p \in {q \in Ordens(Len(rows)) :
                 \A i, j \in 1..Len(rows) :
                    i < j => rows[q[i]].nps >= rows[q[j]].nps}}

(* Variant with one slip: the rows are sorted with nps ascending.          *)
calcular_nps_por_segmento_ascendente(d, cols, col) ==
    IF empty(d, cols) \/ col \notin cols THEN {Return(<<>>)}
    ELSE IF resultados(d, cols, col) = <<>> THEN {Raise("KeyError")}
    ELSE LET rows == resultados(d, cols, col)
         IN  {Return([k \in 1..Len(rows) |-> rows[p[k]]]) :
                p \in {q \in Ordens(Len(rows)) :
                         \A i, j \in 1..Len(rows) :
                            i < j => rows[q[i]].nps <= rows[q[j]].nps}}

(* The set of the possible outcomes of one call.                           *)
calcular_nps_por_segmento(d, cols, col) ==
    IF empty(d, cols) \/ col \notin cols
    THEN {Return(<<>>)}
    ELSE IF "classificacao_empresa" \notin cols /\ dropna_unique(d, col, {}) # <<>>
    THEN {Raise("KeyError")}
    \* pd.DataFrame([]) has no column: sort_values('nps') raises KeyError
    ELSE IF resultados(d, cols, col) = <<>>
    THEN {Raise("KeyError")}
    ELSE {Return(df_resultado) :
            df_resultado \in sort_values_nps_desc(resultados(d, cols, col))}

---------------------------------------------------------------------------
(* criar_heatmap_data: the matrix faixa_frota x faixa_tempo_casa of the    *)
(* mean note (in tenths, as a fraction in lowest terms), NaN where the     *)
(* matrix holds no value.                                                  *)

RECURSIVE GCD(_, _)
GCD(a, b) == IF b = 0 THEN a ELSE GCD(b, a % b)

Fraction(num, den) == <<num \div GCD(num, den), den \div GCD(num, den)>>

(* pd.DataFrame()                                                          *)
matriz_vazia == [index |-> {}, columns |-> {}, values |-> <<>>]

(* groupby(['faixa_frota', 'faixa_tempo_casa']): the groups are the pairs  *)
(* of keys of the rows in which neither key is null (dropna=True).         *)
grupos(d) ==
    {<<d[i].faixa_frota, d[i].faixa_tempo_casa>> :
        i \in {j \in DOMAIN d : d[j].faixa_frota # None
                                 /\ d[j].faixa_tempo_casa # None}}

linhas_do_grupo(d, g) ==
    SelectSeq(d, LAMBDA r : r.faixa_frota = g[1] /\ r.faixa_tempo_casa = g[2])

RECURSIVE soma_notas(_)
soma_notas(d) ==
    IF d = <<>> THEN 0
    ELSE value(Head(d).nota_media_empresa) + soma_notas(Tail(d))

(* agg 'mean': the mean of the notes of the group that are not NaN, NaN    *)
(* when the group holds none.                                              *)
nps_medio(d, g) ==
    LET notas == SelectSeq(linhas_do_grupo(d, g),
                           LAMBDA r : notna(r.nota_media_empresa))
    IN  IF notas = <<>> THEN NaN
        ELSE Fraction(soma_notas(notas), Len(notas))

(* heatmap_data.pivot(index, columns, values='nps_medio'): a cell of the   *)
(* matrix without a group is NaN.                                          *)
pivot(d) ==
    LET index == {g[1] : g \in grupos(d)}
        colunas == {g[2] : g \in grupos(d)}
    IN  [index   |-> index,
         columns |-> colunas,
         values  |-> [c \in index \X colunas |->
                        IF c \in grupos(d) THEN nps_medio(d, c) ELSE NaN]]

(* Variant with one slip: the cells without a group are filled with 0.     *)
criar_heatmap_data_fill_zero(d, cols) ==
    IF empty(d, cols) THEN Return(matriz_vazia)
    ELSE IF ~({"faixa_frota", "faixa_tempo_casa", "nota_media_empresa",
               "customer_id"} \subseteq cols)
    THEN Raise("KeyError")
    ELSE LET matriz == pivot(d)
         IN  Return([matriz EXCEPT !.values =
                        [c \in DOMAIN matriz.values |->
                            IF matriz.values[c] = NaN THEN <<0, 1>>
                            ELSE matriz.values[c]]])

criar_heatmap_data(d, cols) ==
    IF empty(d, cols) THEN Return(matriz_vazia)
    ELSE IF ~({"faixa_frota", "faixa_tempo_casa", "nota_media_empresa",
               "customer_id"} \subseteq cols)
    THEN Raise("KeyError")
    ELSE Return(pivot(d))

(* The segment columns asked for: two columns of the DataFrame and one it  *)
(* does not have.                                                          *)
ColunasSegmento == {"tipo_cliente", "faixa_frota", "lifecyclestage_descricao"}

---------------------------------------------------------------------------
(* filtrar_detratores_prioritarios: the Detrator rows, each with the label *)
(* (the row number in df) it keeps from the input, sorted by priority.     *)

(* The columns of the loaded DataFrame the other functions read.           *)
QueryColumns ==
    AllColumns \cup {"customer_name", "flag_alerta", "comentarios_consolidados",
                     "ultima_resposta"}

(* df[df['classificacao_empresa'] == 'Detrator']: the rows kept, from row  *)
(* k on, with their labels.                                                *)
RECURSIVE detratores_de(_, _)
detratores_de(d, k) ==
    IF k > Len(d) THEN <<>>
    ELSE (IF d[k].classificacao_empresa = "Detrator"
          THEN <<[index |-> k, row |-> d[k]]>> ELSE <<>>)
         \o detratores_de(d, k + 1)

(* df['flag_alerta'].map(prioridade_flag).fillna(3)                        *)
ordem_flag(flag) ==
    CASE flag = "URGENTE" -> 1
      [] flag = "ATENÇÃO" -> 2
      [] flag = "OK"      -> 3
      [] OTHER            -> 3

(* Variants of the order with one slip each: the fleet size sorts          *)
(* ascending; rows of the same key sort in the reverse of their order.     *)
antes_frota_ascendente(a, b) ==
    \/ ordem_flag(a.row.flag_alerta) < ordem_flag(b.row.flag_alerta)
    \/ /\ ordem_flag(a.row.flag_alerta) = ordem_flag(b.row.flag_alerta)
       /\ \/ notna(a.row.qtd_frota) /\ isna(b.row.qtd_frota)
          \/ /\ notna(a.row.qtd_frota) /\ notna(b.row.qtd_frota)
             /\ value(a.row.qtd_frota) < value(b.row.qtd_frota)

antes_empates_invertidos(a, b) ==
    \/ ordem_flag(a.row.flag_alerta) < ordem_flag(b.row.flag_alerta)
    \/ /\ ordem_flag(a.row.flag_alerta) = ordem_flag(b.row.flag_alerta)
       /\ \/ notna(a.row.qtd_frota) /\ isna(b.row.qtd_frota)
          \/ a.row.qtd_frota = b.row.qtd_frota
          \/ /\ notna(a.row.qtd_frota) /\ notna(b.row.qtd_frota)
             /\ value(a.row.qtd_frota) > value(b.row.qtd_frota)

(* The order of sort_values(by=['ordem_flag', 'qtd_frota'],                *)
(* ascending=[True, False]): a sorts strictly before b.  A NaN fleet size  *)
(* sorts last (na_position='last').                                        *)
antes_prioridade(a, b) ==
    \/ ordem_flag(a.row.flag_alerta) < ordem_flag(b.row.flag_alerta)
    \/ /\ ordem_flag(a.row.flag_alerta) = ordem_flag(b.row.flag_alerta)
       /\ \/ notna(a.row.qtd_frota) /\ isna(b.row.qtd_frota)
          \/ /\ notna(a.row.qtd_frota) /\ notna(b.row.qtd_frota)
             /\ value(a.row.qtd_frota) > value(b.row.qtd_frota)

(* A sort on several columns is a lexsort, which is stable: each row goes  *)
(* after the rows placed before it that do not sort strictly after it.     *)
RECURSIVE inserir_prioridade(_, _)
inserir_prioridade(sorted, x) ==
    IF sorted = <<>> THEN <<x>>
    ELSE IF antes_prioridade(x, Head(sorted)) THEN <<x>> \o sorted
    ELSE <<Head(sorted)>> \o inserir_prioridade(Tail(sorted), x)

RECURSIVE sort_values_prioridade(_)
sort_values_prioridade(rows) ==
    IF rows = <<>> THEN <<>>
    ELSE inserir_prioridade(sort_values_prioridade(SubSeq(rows, 1, Len(rows) - 1)),
                            rows[Len(rows)])

filtrar_detratores_prioritarios(d, cols) ==
    IF empty(d, cols) THEN Return(<<>>)
    ELSE IF "classificacao_empresa" \notin cols THEN Raise("KeyError")
    ELSE
      LET df_detratores == detratores_de(d, 1)
      IN  IF df_detratores = <<>> THEN Return(<<>>)
          ELSE IF ~({"flag_alerta", "qtd_frota"} \subseteq cols)
          THEN Raise("KeyError")
          ELSE Return(sort_values_prioridade(df_detratores))

---------------------------------------------------------------------------
(* eh_comentario_valido.  A text is the sequence of its characters; a text *)
(* cell is <<>> when it is null and <<text>> when it holds text.           *)

(* [a-zA-ZÀ-ÿ], of which the texts use "a" and "é".                        *)
Letras == {"a", "é"}

Digitos == {"1"}

(* \w: the letters, the digits and the underscore.                         *)
eh_caractere_de_palavra(c) == c \in Letras \cup Digitos \cup {"_"}

(* str.strip(): the text without its leading and trailing white space.     *)
RECURSIVE lstrip(_)
lstrip(t) == IF t # <<>> /\ Head(t) = " " THEN lstrip(Tail(t)) ELSE t

RECURSIVE rstrip(_)
rstrip(t) ==
    IF t # <<>> /\ t[Len(t)] = " " THEN rstrip(SubSeq(t, 1, Len(t) - 1)) ELSE t

strip(t) == rstrip(lstrip(t))

(* str.replace(c, '')                                                      *)
remover(t, c) == SelectSeq(t, LAMBDA x : x # c)

(* str.isdigit(): not empty and made of digits only.                       *)
isdigit(t) == t # <<>> /\ \A k \in DOMAIN t : t[k] \in Digitos

(* \b before position p (1 .. Len(t) + 1): exactly one of the characters   *)
(* at p - 1 and at p is a word character.                                  *)
limite_de_palavra(t, p) ==
    (p > 1 /\ eh_caractere_de_palavra(t[p - 1]))
        # (p <= Len(t) /\ eh_caractere_de_palavra(t[p]))

(* The ends j of a match of \b[a-zA-ZÀ-ÿ]{2,}\b that starts at i.          *)
fins_de_palavra(t, i) ==
    {j \in (i + 1)..Len(t) :
        /\ limite_de_palavra(t, i)
        /\ \A k \in i..j : t[k] \in Letras
        /\ limite_de_palavra(t, j + 1)}

Maximo(S) == CHOOSE x \in S : \A y \in S : y <= x

(* len(re.findall(r'\b[a-zA-ZÀ-ÿ]{2,}\b', comentario)): the matches are    *)
(* taken from the left, each the longest at its start, without overlap.    *)
RECURSIVE contar_palavras(_, _)
contar_palavras(t, i) ==
    IF i > Len(t) THEN 0
    ELSE IF fins_de_palavra(t, i) # {}
    THEN 1 + contar_palavras(t, Maximo(fins_de_palavra(t, i)) + 1)
    ELSE contar_palavras(t, i + 1)

(* len(re.findall(r'[a-zA-ZÀ-ÿ]', comentario))                             *)
contar_letras(t) == Len(SelectSeq(t, LAMBDA x : x \in Letras))

(* Variant with one slip: the pattern has no \b, so that every run of two  *)
(* letters or more is a word.                                              *)
RECURSIVE contar_sequencias(_, _)
contar_sequencias(t, i) ==
    IF i > Len(t) THEN 0
    ELSE LET fins == {j \in (i + 1)..Len(t) : \A k \in i..j : t[k] \in Letras}
         IN  IF fins # {} THEN 1 + contar_sequencias(t, Maximo(fins) + 1)
             ELSE contar_sequencias(t, i + 1)

eh_comentario_valido_sem_limites(cell) ==
    IF isna(cell) THEN FALSE
    ELSE
      LET comentario == strip(value(cell))
          comentario_limpo == remover(remover(remover(comentario, " "), "."), ",")
      IN  IF comentario = <<>> THEN FALSE
          ELSE IF Len(comentario) <= 3 THEN FALSE
          ELSE IF isdigit(comentario_limpo) THEN FALSE
          ELSE IF contar_sequencias(comentario, 1) < 2 THEN FALSE
          ELSE IF contar_letras(comentario) < 10 THEN FALSE
          ELSE TRUE

(* Variant with one slip: the length gate rejects up to 12 characters.     *)
eh_comentario_valido_limite_doze(cell) ==
    IF isna(cell) THEN FALSE
    ELSE
      LET comentario == strip(value(cell))
          comentario_limpo == remover(remover(remover(comentario, " "), "."), ",")
      IN  IF comentario = <<>> THEN FALSE
          ELSE IF Len(comentario) <= 12 THEN FALSE
          ELSE IF isdigit(comentario_limpo) THEN FALSE
          ELSE IF contar_palavras(comentario, 1) < 2 THEN FALSE
          ELSE IF contar_letras(comentario) < 10 THEN FALSE
          ELSE TRUE

eh_comentario_valido(cell) ==
    IF isna(cell) THEN FALSE
    ELSE
      LET comentario == strip(value(cell))
          comentario_limpo == remover(remover(remover(comentario, " "), "."), ",")
      IN  IF comentario = <<>> THEN FALSE
          ELSE IF Len(comentario) <= 3 THEN FALSE
          ELSE IF isdigit(comentario_limpo) THEN FALSE
          ELSE IF contar_palavras(comentario, 1) < 2 THEN FALSE
          ELSE IF contar_letras(comentario) < 10 THEN FALSE
          ELSE TRUE

---------------------------------------------------------------------------
(* Formatting.  A string is the sequence of its characters.                *)

Algarismos == <<"0", "1", "2", "3", "4", "5", "6", "7", "8", "9">>

(* str(n) of an integer n >= 0.                                            *)
RECURSIVE str_int(_)
str_int(n) ==
    IF n < 10 THEN <<Algarismos[n + 1]>>
    ELSE str_int(n \div 10) \o <<Algarismos[(n % 10) + 1]>>

(* The ',' option of the format specification: one "," before every group  *)
(* of three digits, from the right.                                        *)
RECURSIVE separar_milhares(_)
separar_milhares(s) ==
    IF Len(s) <= 3 THEN s
    ELSE separar_milhares(SubSeq(s, 1, Len(s) - 3))
             \o <<",">> \o SubSeq(s, Len(s) - 2, Len(s))

(* "{:,.<decimais>f}".format(valor), valor given in tenths: fixed point,   *)
(* rounded half to even to the places asked for, the sign kept.            *)
format_f(decimos, decimais) ==
    LET sinal == IF decimos < 0 THEN <<"-">> ELSE <<>>
        modulo == IF decimos < 0 THEN -decimos ELSE decimos
    IN  IF decimais = 0
        THEN sinal \o separar_milhares(str_int(RoundHalfEven(modulo, 10)))
        ELSE sinal \o separar_milhares(str_int(modulo \div 10))
                 \o <<".">> \o <<Algarismos[(modulo % 10) + 1]>>
                 \o [k \in 1..(decimais - 1) |-> "0"]

(* s.replace(a, b) for characters a and b.                                 *)
replace(s, a, b) == [k \in DOMAIN s |-> IF s[k] = a THEN b ELSE s[k]]

formatar_numero(valor, decimais, sufixo) ==
    IF isna(valor) THEN Return(<<"-">>)
    ELSE
      LET numero_formatado == replace(format_f(value(valor), decimais), ",", ".")
      IN  Return(numero_formatado \o sufixo)

(* Variant with one slip: < for <=, so that a text of max_chars characters *)
(* gets the ellipsis.                                                      *)
truncar_texto_menor(texto, max_chars) ==
    IF isna(texto) THEN Return(<<"-">>)
    ELSE IF Len(value(texto)) < max_chars THEN Return(value(texto))
    ELSE Return(SubSeq(value(texto), 1, max_chars) \o <<".", ".", ".">>)

truncar_texto(texto, max_chars) ==
    IF isna(texto) THEN Return(<<"-">>)
    ELSE IF Len(value(texto)) <= max_chars THEN Return(value(texto))
    ELSE Return(SubSeq(value(texto), 1, max_chars) \o <<".", ".", ".">>)

(* Dates.  A date value is a record of tipo "Timestamp" (pd.Timestamp or   *)
(* datetime), "date" (datetime.date) or "str" (a string, field texto).     *)

Timestamp(dia, mes, ano) ==
    [tipo |-> "Timestamp", dia |-> dia, mes |-> mes, ano |-> ano]

bissexto(ano) == (ano % 4 = 0 /\ ano % 100 # 0) \/ ano % 400 = 0

dias_no_mes(mes, ano) ==
    IF mes = 2 THEN (IF bissexto(ano) THEN 29 ELSE 28)
    ELSE IF mes \in {4, 6, 9, 11} THEN 30 ELSE 31

data_valida(dia, mes, ano) == mes \in 1..12 /\ dia \in 1..dias_no_mes(mes, ano)

dois_algarismos(n) == <<Algarismos[(n \div 10) + 1], Algarismos[(n % 10) + 1]>>

(* data.strftime("%d/%m/%Y"), the year having four digits.                 *)
strftime(d) ==
    dois_algarismos(d.dia) \o <<"/">> \o dois_algarismos(d.mes)
        \o <<"/">> \o str_int(d.ano)

(* str(data) of a datetime.date: YYYY-MM-DD.                               *)
isoformat(d) ==
    str_int(d.ano) \o <<"-">> \o dois_algarismos(d.mes)
        \o <<"-">> \o dois_algarismos(d.dia)

eh_algarismo(c) == \E k \in 1..10 : Algarismos[k] = c

(* int(s) of a string of digits.                                           *)
RECURSIVE int_de(_)
int_de(s) ==
    IF s = <<>> THEN 0
    ELSE 10 * int_de(SubSeq(s, 1, Len(s) - 1))
             + (CHOOSE k \in 0..9 : Algarismos[k + 1] = s[Len(s)])

(* The string has the separator sep at the places given and digits at all  *)
(* other places of its 10.                                                 *)
tem_forma(s, sep, lugares) ==
    /\ Len(s) = 10
    /\ \A k \in 1..10 : IF k \in lugares THEN s[k] = sep ELSE eh_algarismo(s[k])

(* pd.to_datetime(s) with its defaults (dayfirst=False): YYYY-MM-DD is     *)
(* read as such; NN/NN/YYYY is read month first and, when that gives no    *)
(* date, day first; anything else the texts hold is no date.               *)
to_datetime(s) ==
    IF tem_forma(s, "-", {5, 8})
    THEN LET ano == int_de(SubSeq(s, 1, 4))
             mes == int_de(SubSeq(s, 6, 7))
             dia == int_de(SubSeq(s, 9, 10))
         IN  IF data_valida(dia, mes, ano) THEN Return(Timestamp(dia, mes, ano))
             ELSE Raise("ValueError")
    ELSE IF tem_forma(s, "/", {3, 6})
    THEN LET p == int_de(SubSeq(s, 1, 2))
             q == int_de(SubSeq(s, 4, 5))
             ano == int_de(SubSeq(s, 7, 10))
         IN  IF data_valida(q, p, ano) THEN Return(Timestamp(q, p, ano))
             ELSE IF data_valida(p, q, ano) THEN Return(Timestamp(p, q, ano))
             ELSE Raise("ValueError")
    ELSE Raise("ValueError")

(* Variant with one slip: no test of pd.isna, so that a null reaches       *)
(* str(data).                                                              *)
formatar_data_sem_guarda(data) ==
    IF isna(data) THEN Return(<<"N", "o", "n", "e">>)
    ELSE IF value(data).tipo = "str"
    THEN LET lida == to_datetime(value(data).texto)
         IN  IF lida.raised # "none" THEN Return(value(data).texto)
             ELSE Return(strftime(lida.value))
    ELSE IF value(data).tipo = "Timestamp" THEN Return(strftime(value(data)))
    ELSE Return(isoformat(value(data)))

formatar_data(data) ==
    IF isna(data) THEN Return(<<"-">>)
    ELSE IF value(data).tipo = "str"
    THEN LET lida == to_datetime(value(data).texto)
         IN  IF lida.raised # "none" THEN Return(value(data).texto)
             ELSE Return(strftime(lida.value))
    ELSE IF value(data).tipo = "Timestamp" THEN Return(strftime(value(data)))
    ELSE Return(isoformat(value(data)))

---------------------------------------------------------------------------
(* processar_comentarios_por_classificacao.  The result is a set of        *)
(* outcomes: sort_values on one column is not stable, so that records of   *)
(* the same ultima_resposta come in any order.                             *)

(* The three filters on the records of one classification.                 *)
comentarios_validos(d, classif) ==
    SelectSeq(d, LAMBDA r :
        /\ r.classificacao_empresa = classif
        /\ notna(r.comentarios_consolidados)
        /\ strip(value(r.comentarios_consolidados)) # <<>>
        /\ eh_comentario_valido(r.comentarios_consolidados))

data_posterior(a, b) ==
    \/ a.ano > b.ano
    \/ a.ano = b.ano /\ a.mes > b.mes
    \/ a.ano = b.ano /\ a.mes = b.mes /\ a.dia > b.dia

(* Row a sorts strictly before row b: descending ultima_resposta, NaT last. *)
antes_resposta(a, b) ==
    /\ notna(a.ultima_resposta)
    /\ \/ isna(b.ultima_resposta)
       \/ data_posterior(value(a.ultima_resposta), value(b.ultima_resposta))

(* The sorted sequences got by putting x into the sorted sequence s.       *)
inserir_resposta(s, x) ==
    {SubSeq(s, 1, i) \o <<x>> \o SubSeq(s, i + 1, Len(s)) :
        i \in {i \in 0..Len(s) :
                 /\ \A j \in 1..i : ~antes_resposta(x, s[j])
                 /\ \A j \in (i + 1)..Len(s) : ~antes_resposta(s[j], x)}}

(* df_classif.sort_values('ultima_resposta', ascending=False): every order *)
(* of the rows that is sorted.                                             *)
RECURSIVE sort_values_resposta(_)
sort_values_resposta(rows) ==
    IF rows = <<>> THEN {<<>>}
    ELSE UNION {inserir_resposta(s, rows[Len(rows)]) :
                   s \in sort_values_resposta(SubSeq(rows, 1, Len(rows) - 1))}

(* df.head(n)                                                              *)
head(rows, n) ==
    IF n <= 0 THEN <<>> ELSE IF Len(rows) <= n THEN rows ELSE SubSeq(rows, 1, n)

(* The dict appended for one row; row.get gives None without the column.   *)
registro(row, cols) ==
    [empresa    |-> row.customer_name,
     nota       |-> row.nota_media_empresa,
     data       |-> formatar_data(IF "ultima_resposta" \in cols
                                  THEN row.ultima_resposta ELSE NaN).value,
     comentario |-> value(row.comentarios_consolidados)]

(* Variant with one slip: the records are not sorted.                      *)
comentarios_de_sem_ordenar(d, cols, classif) ==
    LET df_classif == comentarios_validos(d, classif)
    IN  {[k \in DOMAIN s |-> registro(s[k], cols)] :
            s \in {head(df_classif, 20)}}

(* The lists that one pass of the loop can give for classif.               *)
comentarios_de(d, cols, classif) ==
    LET df_classif == comentarios_validos(d, classif)
        ordenados == IF "ultima_resposta" \in cols
                     THEN sort_values_resposta(df_classif)
                     ELSE {df_classif}
    IN  {[k \in DOMAIN s |-> registro(s[k], cols)] :
            s \in {head(o, 20) : o \in ordenados}}

(* Variant with one slip: the 20 comments are shared by the three lists.   *)
processar_comentarios_limite_global(d, cols) ==
    IF empty(d, cols)
    THEN {Return([Promotor |-> <<>>, Neutro |-> <<>>, Detrator |-> <<>>])}
    ELSE {Return([Promotor |-> p,
                  Neutro   |-> head(n, 20 - Len(p)),
                  Detrator |-> head(t, 20 - Len(p) - Len(n))]) :
             p \in comentarios_de(d, cols, "Promotor"),
             n \in comentarios_de(d, cols, "Neutro"),
             t \in comentarios_de(d, cols, "Detrator")}

processar_comentarios_por_classificacao(d, cols) ==
    IF empty(d, cols)
    THEN {Return([Promotor |-> <<>>, Neutro |-> <<>>, Detrator |-> <<>>])}
    ELSE IF ~({"classificacao_empresa", "comentarios_consolidados"} \subseteq cols)
    THEN {Raise("KeyError")}
    ELSE IF /\ ~({"customer_name", "nota_media_empresa"} \subseteq cols)
            /\ \E classif \in {"Promotor", "Neutro", "Detrator"} :
                  comentarios_validos(d, classif) # <<>>
    THEN {Raise("KeyError")}
    ELSE {Return([Promotor |-> p, Neutro |-> n, Detrator |-> t]) :
             p \in comentarios_de(d, cols, "Promotor"),
             n \in comentarios_de(d, cols, "Neutro"),
             t \in comentarios_de(d, cols, "Detrator")}

---------------------------------------------------------------------------
(* validar_dados.  A message is the sequence of the pieces it is made of.  *)

colunas_obrigatorias ==
    <<"customer_id", "customer_name", "tipo_cliente",
      "qtd_frota", "nota_media_empresa", "classificacao_empresa">>

(* [col for col in obrigatorias if col not in df.columns]                  *)
colunas_faltando(obrigatorias, cols) ==
    SelectSeq(obrigatorias, LAMBDA col : col \notin cols)

(* ', '.join(nomes)                                                        *)
RECURSIVE join(_)
join(nomes) ==
    IF nomes = <<>> THEN <<>>
    ELSE IF Len(nomes) = 1 THEN nomes
    ELSE <<Head(nomes), ", ">> \o join(Tail(nomes))

(* Variant with one slip: classificacao_empresa is not asked for.          *)
validar_dados_sem_classificacao(d, cols) ==
    IF empty(d, cols)
    THEN Return(<<FALSE, <<"DataFrame está vazio. Verifique a conexão com o BigQuery.">>>>)
    ELSE IF colunas_faltando(SubSeq(colunas_obrigatorias, 1, 5), cols) # <<>>
    THEN Return(<<FALSE, <<"Colunas faltando: ">>
                      \o join(colunas_faltando(SubSeq(colunas_obrigatorias, 1, 5), cols))>>)
    ELSE Return(<<TRUE, <<"OK">>>>)

validar_dados(d, cols) ==
    IF empty(d, cols)
    THEN Return(<<FALSE, <<"DataFrame está vazio. Verifique a conexão com o BigQuery.">>>>)
    ELSE IF colunas_faltando(colunas_obrigatorias, cols) # <<>>
    THEN Return(<<FALSE, <<"Colunas faltando: ">>
                      \o join(colunas_faltando(colunas_obrigatorias, cols))>>)
    ELSE Return(<<TRUE, <<"OK">>>>)

---------------------------------------------------------------------------
(* The dashboard (app.py): loading with the cache, the sidebar filters and *)
(* the sections of one render pass.                                        *)

CACHE_TTL == 3600

(* Variant with one slip: the cached result never expires.                 *)
cache_valido_sem_ttl(cache, agora) == cache # <<>>

(* @st.cache_data(ttl=CACHE_TTL): a cached result, stored at cache[1].hora, *)
(* is served while it is younger than the time to live.                    *)
cache_valido(cache, agora) ==
    cache # <<>> /\ agora - cache[1].hora < CACHE_TTL

(* st.error(...) followed by st.stop(): the message is shown and the       *)
(* script run ends (StopException is no Exception, so that the except      *)
(* clause of carregar_dados lets it through).                              *)
Parar(mensagem) ==
    [raised |-> "StopException", value |-> <<>>, exibido |-> <<mensagem>>]

(* Variant with one slip: no st.stop() after the validation error.         *)
carregar_dados_sem_parar(credenciais, resultado) ==
    IF ~credenciais THEN Parar("st.error")
    ELSE IF resultado.erro THEN Parar("st.error")
    ELSE IF ~validar_dados(resultado.df, resultado.columns).value[1]
    THEN [raised |-> "none", value |-> resultado, exibido |-> <<"st.error">>]
    ELSE [raised |-> "none", value |-> resultado, exibido |-> <<>>]

(* The body of carregar_dados, run when the cache serves nothing: without  *)
(* credentials get_bigquery_client stops the run; resultado is what the    *)
(* query gives, an error or a DataFrame.                                   *)
carregar_dados(credenciais, resultado) ==
    IF ~credenciais THEN Parar("st.error")
    ELSE IF resultado.erro THEN Parar("st.error")
    ELSE IF ~validar_dados(resultado.df, resultado.columns).value[1]
    THEN Parar("st.error")
    ELSE [raised |-> "none", value |-> resultado, exibido |-> <<>>]

(* sorted(df[col].dropna().unique().tolist()): the options of a filter.    *)
disponiveis(d, col) == {d[k][col] : k \in DOMAIN d} \ {None}

(* The selection of the six filters when the user touches none: default=   *)
(* the options; a filter that is not shown selects nothing.                *)
selecao_padrao(d, cols) ==
    [tipos          |-> disponiveis(d, "tipo_cliente"),
     frotas         |-> disponiveis(d, "faixa_frota"),
     tempos         |-> disponiveis(d, "faixa_tempo_casa"),
     classificacoes |-> {"Promotor", "Neutro", "Detrator"},
     responsaveis   |-> IF "responsavel_cs" \in cols
                        THEN disponiveis(d, "responsavel_cs") ELSE {},
     lifecycles     |-> IF "lifecyclestage_descricao" \in cols
                        THEN disponiveis(d, "lifecyclestage_descricao") ELSE {}]

(* The labels of the rows left by df_filtrado[df_filtrado[col].isin(sel)], *)
(* applied when something is selected.                                     *)
isin(d, indices, col, selecionados) ==
    IF selecionados = {} THEN indices
    ELSE SelectSeq(indices, LAMBDA k : d[k][col] \in selecionados)

(* renderizar_sidebar without its buttons: the filtered copy of df, as the *)
(* labels of the rows kept and the rows themselves.                        *)
renderizar_sidebar(d, cols, sel) ==
    IF ~({"tipo_cliente", "faixa_frota", "faixa_tempo_casa"} \subseteq cols)
    THEN Raise("KeyError")
    ELSE IF sel.classificacoes # {} /\ "classificacao_empresa" \notin cols
    THEN Raise("KeyError")
    ELSE
      LET todos == [k \in DOMAIN d |-> k]
          f1 == isin(d, todos, "tipo_cliente", sel.tipos)
          f2 == isin(d, f1, "faixa_frota", sel.frotas)
          f3 == isin(d, f2, "faixa_tempo_casa", sel.tempos)
          f4 == isin(d, f3, "classificacao_empresa", sel.classificacoes)
          f5 == IF "responsavel_cs" \in cols
                THEN isin(d, f4, "responsavel_cs", sel.responsaveis) ELSE f4
          f6 == IF "lifecyclestage_descricao" \in cols
                THEN isin(d, f5, "lifecyclestage_descricao", sel.lifecycles)
                ELSE f5
      IN  Return([indices |-> f6, df |-> [k \in DOMAIN f6 |-> d[f6[k]]]])

(* One call of a metric function by a section: its name and what it raised. *)
Chamada(funcao, resultado) == [funcao |-> funcao, raised |-> resultado.raised]

(* The calls of a section that are made: those up to the first that raises. *)
RECURSIVE executar(_)
executar(chamadas) ==
    IF chamadas = <<>> THEN <<>>
    ELSE IF Head(chamadas).raised # "none" THEN <<Head(chamadas)>>
    ELSE <<Head(chamadas)>> \o executar(Tail(chamadas))

falhou(chamadas) == \E k \in DOMAIN chamadas : chamadas[k].raised # "none"

(* What a section adds to the page: its title, then its calls.             *)
eventos(secao, chamadas) ==
    <<secao>> \o [k \in DOMAIN executar(chamadas) |-> executar(chamadas)[k].funcao]

chamadas_visao_executiva(d, cols) ==
    <<Chamada("calcular_nps", calcular_nps(d, cols)),
      Chamada("calcular_nps_ponderado", calcular_nps_ponderado(d, cols)),
      Chamada("calcular_distribuicao_classificacao",
              calcular_distribuicao_classificacao(d, cols))>>

chamadas_distribuicao_notas(d, cols) ==
    <<Chamada("criar_distribuicao_notas", criar_distribuicao_notas(d, cols))>>

chamadas_segmentacoes(d, cols) ==
    [k \in 1..3 |->
        Chamada("calcular_nps_por_segmento",
                CHOOSE o \in calcular_nps_por_segmento(d, cols,
                    <<"tipo_cliente", "faixa_frota", "faixa_tempo_casa">>[k]) : TRUE)]

chamadas_heatmap(d, cols) ==
    <<Chamada("criar_heatmap_data", criar_heatmap_data(d, cols))>>

(* renderizar_detratores_risco returns after st.success when there is no   *)
(* detractor; otherwise it goes on to the comments.                        *)
chamadas_detratores_risco(d, cols) ==
    LET df_detratores == filtrar_detratores_prioritarios(d, cols)
    IN  IF df_detratores.raised # "none" \/ df_detratores.value = <<>>
        THEN <<Chamada("filtrar_detratores_prioritarios", df_detratores)>>
        ELSE <<Chamada("filtrar_detratores_prioritarios", df_detratores),
               Chamada("processar_comentarios_por_classificacao",
                       CHOOSE o \in processar_comentarios_por_classificacao(d, cols) :
                           TRUE)>>

---------------------------------------------------------------------------
(* What a call leaves in the DataFrame it was given.  Two metric functions *)
(* assign a column: criar_distribuicao_notas assigns nota_arredondada to   *)
(* df_notas, which is df.copy(), and filtrar_detratores_prioritarios       *)
(* assigns ordem_flag to df_detratores, which is df[...].copy().  The      *)
(* other metric functions assign nothing to a DataFrame of the caller.     *)

colunas_apos_criar_distribuicao_notas_sem_copia(d, cols) ==
    IF empty(d, cols) \/ "nota_media_empresa" \notin cols THEN cols
    ELSE IF criar_distribuicao_notas(d, cols).raised # "none" THEN cols
    ELSE cols \cup {"nota_arredondada"}

colunas_apos_criar_distribuicao_notas(d, cols) == cols

colunas_apos_filtrar_detratores_prioritarios(d, cols) == cols

---------------------------------------------------------------------------
(* renderizar_tabela_clientes: the table of the clients, as it is sorted.  *)

(* CLASSIFICACAO_EMOJI.get(classificacao, ""), an emoji written as its     *)
(* code point.                                                             *)
CLASSIFICACAO_EMOJI(classificacao) ==
    CASE classificacao = "Promotor" -> "U+1F60A"
      [] classificacao = "Neutro" -> "U+1F610"
      [] classificacao = "Detrator" -> "U+1F61E"
      [] OTHER -> ""

(* f"{emoji} {classificacao}" if emoji else classificacao: the pieces of   *)
(* the string.                                                             *)
adicionar_emoji_classificacao(classificacao) ==
    LET emoji == CLASSIFICACAO_EMOJI(classificacao)
    IN  IF emoji # "" THEN <<emoji, " ", classificacao>> ELSE <<classificacao>>

(* df_display['Classificação'].map(ordem_classif): the value under the key *)
(* equal to the whole string of the cell, NaN when there is none.          *)
ordem_classif(celula) ==
    IF celula = <<"Detrator">> THEN Num(1)
    ELSE IF celula = <<"Neutro">> THEN Num(2)
    ELSE IF celula = <<"Promotor">> THEN Num(3)
    ELSE NaN

(* The code point of a character of a formatted number.                    *)
ord(c) ==
    CASE c = "-" -> 45
      [] c = "." -> 46
      [] OTHER -> 48 + (CHOOSE n \in 0..9 : Algarismos[n + 1] = c)

(* a < b for strings: by code point, a prefix before the longer string.    *)
RECURSIVE str_menor(_, _)
str_menor(a, b) ==
    IF b = <<>> THEN FALSE
    ELSE IF a = <<>> THEN TRUE
    ELSE IF Head(a) # Head(b) THEN ord(Head(a)) < ord(Head(b))
    ELSE str_menor(Tail(a), Tail(b))

(* The rows of df_display that the sort reads, with the index label.       *)
df_display(d) ==
    [k \in DOMAIN d |->
        [indice        |-> k,
         Classificacao |-> adicionar_emoji_classificacao(d[k].classificacao_empresa),
         Frota         |-> formatar_numero(d[k].qtd_frota, 0, <<>>).value,
         ordem         |-> ordem_classif(
                               adicionar_emoji_classificacao(d[k].classificacao_empresa))]]

(* sort_values(['_ordem', 'Frota'], ascending=[True, False]): row a comes  *)
(* before row b; a NaN _ordem is last, equal keys keep the input order.    *)
antes_tabela(a, b) ==
    \/ notna(a.ordem) /\ isna(b.ordem)
    \/ notna(a.ordem) /\ notna(b.ordem) /\ value(a.ordem) < value(b.ordem)
    \/ /\ a.ordem = b.ordem
       /\ \/ str_menor(b.Frota, a.Frota)
          \/ a.Frota = b.Frota /\ a.indice < b.indice

sort_values_tabela(t) ==
    LET posicao == [i \in DOMAIN t |->
                       1 + Cardinality({j \in DOMAIN t : antes_tabela(t[j], t[i])})]
    IN  [p \in DOMAIN t |-> t[CHOOSE i \in DOMAIN t : posicao[i] = p]]

(* The table given to st.dataframe, the column _ordem dropped.             *)
renderizar_tabela_clientes(d, cols) ==
    LET ordenado == sort_values_tabela(df_display(d))
    IN  Return([p \in DOMAIN ordenado |->
                   [indice        |-> ordenado[p].indice,
                    Classificacao |-> ordenado[p].Classificacao,
                    Frota         |-> ordenado[p].Frota]])

---------------------------------------------------------------------------
(* Calls                                                                   *)

Call_calcular_nps ==
    /\ op' = "calcular_nps"
    /\ arg' = None
    /\ out' = calcular_nps(df, columns)
    /\ UNCHANGED <<df, columns>>

Call_calcular_distribuicao_classificacao ==
    /\ op' = "calcular_distribuicao_classificacao"
    /\ arg' = None
    /\ out' = calcular_distribuicao_classificacao(df, columns)
    /\ UNCHANGED <<df, columns>>

Call_calcular_nps_ponderado ==
    /\ op' = "calcular_nps_ponderado"
    /\ arg' = None
    /\ out' = calcular_nps_ponderado(df, columns)
    /\ UNCHANGED <<df, columns>>

Call_criar_distribuicao_notas ==
    /\ op' = "criar_distribuicao_notas"
    /\ arg' = None
    /\ out' = criar_distribuicao_notas(df, columns)
    /\ UNCHANGED <<df, columns>>

Call_calcular_nps_por_segmento ==
    \E coluna_segmento \in ColunasSegmento :
        /\ op' = "calcular_nps_por_segmento"
        /\ arg' = coluna_segmento
        /\ out' \in calcular_nps_por_segmento(df, columns, coluna_segmento)
        /\ UNCHANGED <<df, columns>>

Call_criar_heatmap_data ==
    /\ op' = "criar_heatmap_data"
    /\ arg' = None
    /\ out' = criar_heatmap_data(df, columns)
    /\ UNCHANGED <<df, columns>>

Call_filtrar_detratores_prioritarios ==
    /\ op' = "filtrar_detratores_prioritarios"
    /\ arg' = None
    /\ out' = filtrar_detratores_prioritarios(df, columns)
    /\ UNCHANGED <<df, columns>>

Call_eh_comentario_valido ==
    /\ op' = "eh_comentario_valido"
    /\ out' = Return(eh_comentario_valido(arg))
    /\ UNCHANGED <<df, columns, arg>>

Call_formatar_numero ==
    /\ arg.funcao = "formatar_numero"
    /\ op' = "formatar_numero"
    /\ out' = formatar_numero(arg.valor, arg.decimais, arg.sufixo)
    /\ UNCHANGED <<df, columns, arg>>

Call_formatar_data ==
    /\ arg.funcao = "formatar_data"
    /\ op' = "formatar_data"
    /\ out' = formatar_data(arg.data)
    /\ UNCHANGED <<df, columns, arg>>

Call_truncar_texto ==
    /\ arg.funcao = "truncar_texto"
    /\ op' = "truncar_texto"
    /\ out' = truncar_texto(arg.texto, arg.max_chars)
    /\ UNCHANGED <<df, columns, arg>>

Call_processar_comentarios_por_classificacao ==
    /\ op' = "processar_comentarios_por_classificacao"
    /\ out' \in processar_comentarios_por_classificacao(df, columns)
    /\ UNCHANGED <<df, columns, arg>>

Call_validar_dados ==
    /\ op' = "validar_dados"
    /\ out' = validar_dados(df, columns)
    /\ UNCHANGED <<df, columns, arg>>

Call_renderizar_tabela_clientes ==
    /\ op' = "renderizar_tabela_clientes"
    /\ arg' = None
    /\ out' = renderizar_tabela_clientes(df, columns)
    /\ UNCHANGED <<df, columns>>

(* One run of renderizar_sidebar: the user's selection in each filter is a *)
(* subset of its options; a button pressed ends the run in st.rerun().     *)
Call_renderizar_sidebar ==
    \E botao \in {"nenhum", "Refresh", "Limpar"} :
    \E sel \in [tipos          : SUBSET selecao_padrao(df, columns).tipos,
                frotas         : SUBSET selecao_padrao(df, columns).frotas,
                tempos         : SUBSET selecao_padrao(df, columns).tempos,
                classificacoes : SUBSET selecao_padrao(df, columns).classificacoes,
                responsaveis   : SUBSET selecao_padrao(df, columns).responsaveis,
                lifecycles     : SUBSET selecao_padrao(df, columns).lifecycles] :
        /\ op = "none"
        /\ op' = "renderizar_sidebar"
        /\ arg' = sel
        /\ out' = IF botao = "nenhum" THEN renderizar_sidebar(df, columns, sel)
                  ELSE Raise("RerunException")
        /\ UNCHANGED <<df, columns>>

---------------------------------------------------------------------------
(* Classification metrics: the rows differ in their classification, which  *)
(* may be null or outside the enum; pd.DataFrame() has no column at all.   *)

RowsNps == {Row(c, Num(80), Num(1), "DAF", "A", "X") : c \in ClassifCells}

InitNps ==
    /\ df \in SeqsUpTo(RowsNps, MaxRowsNps)
    /\ columns \in IF df = <<>> THEN {{}, AllColumns} ELSE {AllColumns}
    /\ op = "none"
    /\ arg = None
    /\ out = Return(None)

Next ==
    \/ Call_calcular_nps
    \/ Call_calcular_distribuicao_classificacao

Spec == InitNps /\ [][Next]_vars

---------------------------------------------------------------------------
(* Weighted NPS: the rows differ in note and fleet size, either of which   *)
(* may be missing; the DataFrame may lack either column.                   *)

NotasPonderado == {NaN, Num(0), Num(75), Num(80)}

FrotasPonderado == {NaN, Num(0), Num(1), Num(3)}

RowsPonderado ==
    {Row("Neutro", n, f, "DAF", "A", "X") :
        n \in NotasPonderado, f \in FrotasPonderado}

InitPonderado ==
    /\ df \in SeqsUpTo(RowsPonderado, MaxRowsPonderado)
    /\ columns \in IF df = <<>> THEN {{}, AllColumns}
                   ELSE {AllColumns, AllColumns \ {"qtd_frota"},
                         AllColumns \ {"nota_media_empresa"}}
    /\ op = "none"
    /\ arg = None
    /\ out = Return(None)

NextPonderado == Call_calcular_nps_ponderado

SpecPonderado == InitPonderado /\ [][NextPonderado]_vars

---------------------------------------------------------------------------
(* Note histogram: the rows differ in their note, which may be missing, a  *)
(* half (0.5, 6.5, 7.5, 8.5) or outside [0, 10] (-0.6, 10.6).              *)

NotasHistograma ==
    {NaN, Num(0), Num(5), Num(65), Num(75), Num(85), Num(100), Num(106),
     Num(-6)}

RowsNotas == {Row("Neutro", n, Num(1), "DAF", "A", "X") : n \in NotasHistograma}

InitNotas ==
    /\ df \in SeqsUpTo(RowsNotas, MaxRowsNotas)
    /\ columns \in IF df = <<>> THEN {{}, AllColumns}
                   ELSE {AllColumns, AllColumns \ {"nota_media_empresa"}}
    /\ op = "none"
    /\ arg = None
    /\ out = Return(None)

NextNotas == Call_criar_distribuicao_notas

SpecNotas == InitNotas /\ [][NextNotas]_vars

---------------------------------------------------------------------------
(* NPS by segment: the rows differ in classification and in the two        *)
(* segment columns, either of which may be null.                           *)

RowsSegmento ==
    {Row(c, Num(80), Num(1), t, f, "X") :
        c \in Classificacoes, t \in {None, "DAF", "Multimarcas"}, f \in {None, "A"}}

InitSegmento ==
    /\ df \in SeqsUpTo(RowsSegmento, MaxRowsSegmento)
    /\ columns \in IF df = <<>> THEN {{}, AllColumns} ELSE {AllColumns}
    /\ op = "none"
    /\ arg = None
    /\ out = Return(None)

NextSegmento == Call_calcular_nps_por_segmento

SpecSegmento == InitSegmento /\ [][NextSegmento]_vars

---------------------------------------------------------------------------
(* Heatmap: the rows differ in the two band columns, either of which may   *)
(* be null, and in their note, which may be missing or 0.                  *)

RowsHeatmap ==
    {Row("Neutro", n, Num(1), "DAF", f, t) :
        n \in {NaN, Num(0), Num(75)},
        f \in {None, "A", "B"},
        t \in {None, "X", "Y"}}

InitHeatmap ==
    /\ df \in SeqsUpTo(RowsHeatmap, MaxRowsHeatmap)
    /\ columns \in IF df = <<>> THEN {{}, AllColumns} ELSE {AllColumns}
    /\ op = "none"
    /\ arg = None
    /\ out = Return(None)

NextHeatmap == Call_criar_heatmap_data

SpecHeatmap == InitHeatmap /\ [][NextHeatmap]_vars

---------------------------------------------------------------------------
(* Detractors by priority: the rows differ in classification, in the      *)
(* alert flag, which may be null or outside the three flags, and in the    *)
(* fleet size, which may be missing.                                       *)

RowAlerta(classif, flag, frota) ==
    [classificacao_empresa |-> classif,
     flag_alerta           |-> flag,
     qtd_frota             |-> frota]

RowsDetratores ==
    {RowAlerta(c, f, q) :
        c \in {"Detrator", "Promotor"},
        f \in {"URGENTE", "ATENÇÃO", "OK", None, "OUTRO"},
        q \in {NaN, Num(5), Num(9)}}

InitDetratores ==
    /\ df \in SeqsUpTo(RowsDetratores, MaxRowsDetratores)
    /\ columns \in IF df = <<>> THEN {{}, QueryColumns} ELSE {QueryColumns}
    /\ op = "none"
    /\ arg = None
    /\ out = Return(None)

NextDetratores == Call_filtrar_detratores_prioritarios

SpecDetratores == InitDetratores /\ [][NextDetratores]_vars

---------------------------------------------------------------------------
(* Comment validity: the text is null or made of up to MaxRuns pieces, a   *)
(* piece being a run of 1, 2 or 8 letters, two accented letters, a digit,  *)
(* a space, a period, a comma or an underscore.                            *)

Pecas ==
    {<<"a">>, <<"a", "a">>, <<"a", "a", "a", "a", "a", "a", "a", "a">>,
     <<"é", "é">>, <<"1">>, <<" ">>, <<".">>, <<",">>, <<"_">>}

RECURSIVE Concatenar(_)
Concatenar(pecas) ==
    IF pecas = <<>> THEN <<>> ELSE Head(pecas) \o Concatenar(Tail(pecas))

Textos == {Concatenar(pecas) : pecas \in SeqsUpTo(Pecas, MaxRuns)}

InitComentario ==
    /\ df = <<>>
    /\ columns = {}
    /\ op = "none"
    /\ arg \in {NaN} \cup {<<t>> : t \in Textos}
    /\ out = Return(None)

NextComentario == Call_eh_comentario_valido

SpecComentario == InitComentario /\ [][NextComentario]_vars

---------------------------------------------------------------------------
(* Formatting: the arguments of one call of formatar_numero (a value in    *)
(* tenths or a null, the places, the suffix), of formatar_data (a null, a  *)
(* Timestamp, a datetime.date or a string) or of truncar_texto (a null or  *)
(* a text, the length asked for).                                          *)

Decimos ==
    {s * (10 * i + d) :
        s \in {1, -1},
        i \in {0, 1, 2, 12, 999, 1000, 1001, 999999, 1000000, 1234567},
        d \in 0..9}

ArgsNumero ==
    [funcao : {"formatar_numero"},
     valor : {NaN} \cup {Num(v) : v \in Decimos},
     decimais : 0..MaxDecimais,
     sufixo : {<<>>, <<"%">>}]

Datas ==
    {Timestamp(dia, mes, ano) :
        dia \in 1..31, mes \in 1..12, ano \in {2024, 2026}}

DatasValidas == {d \in Datas : data_valida(d.dia, d.mes, d.ano)}

ArgsData ==
    [funcao : {"formatar_data"},
     data : {NaN}
              \cup {<<d>> : d \in DatasValidas}
              \cup {<<[d EXCEPT !.tipo = "date"]>> : d \in DatasValidas}
              \cup {<<[tipo |-> "str", texto |-> strftime(d)]>> : d \in Datas}
              \cup {<<[tipo |-> "str", texto |-> isoformat(d)]>> : d \in Datas}
              \cup {<<[tipo |-> "str", texto |-> t]>> :
                       t \in {<<>>, <<"n", "/", "d">>, <<"-">>}}]

ArgsTexto ==
    [funcao : {"truncar_texto"},
     texto : {NaN} \cup {<<t>> : t \in SeqsUpTo({"a", "."}, MaxLenTexto)},
     max_chars : 0..MaxChars]

InitFormatacao ==
    /\ df = <<>>
    /\ columns = {}
    /\ op = "none"
    /\ arg \in ArgsNumero \cup ArgsData \cup ArgsTexto
    /\ out = Return(<<>>)

NextFormatacao ==
    \/ Call_formatar_numero
    \/ Call_formatar_data
    \/ Call_truncar_texto

SpecFormatacao == InitFormatacao /\ [][NextFormatacao]_vars

---------------------------------------------------------------------------
(* Comments by classification: up to MaxRowsComentarios rows that differ   *)
(* in classification, comment (null, blank, too short, valid) and time of  *)
(* the last answer, or none or one such row followed by 19 or 21 equal     *)
(* rows with a valid comment, which bring a list to the 20 comments kept   *)
(* and beyond; ultima_resposta is a column or not.                         *)

RowComentario(classif, comentario, resposta, nome) ==
    [classificacao_empresa    |-> classif,
     comentarios_consolidados |-> comentario,
     ultima_resposta          |-> resposta,
     customer_name            |-> nome,
     nota_media_empresa       |-> Num(90)]

ComentarioValido == <<"a", "a", "a", "a", "a", "a", "a", "a", " ", "é", "é">>

Respostas == {NaN, <<Timestamp(6, 1, 2026)>>, <<Timestamp(1, 2, 2026)>>}

RowsComentarios ==
    {RowComentario(c, t, r, "A") :
        c \in {"Promotor", "Detrator"},
        t \in {NaN, <<<<" ">>>>, <<<<"o", "k">>>>, <<ComentarioValido>>},
        r \in Respostas}

Recheios ==
    {[k \in 1..n |-> RowComentario(c, <<ComentarioValido>>,
                                   <<Timestamp(6, 1, 2026)>>, "R")] :
        n \in {19, 21}, c \in {"Promotor", "Detrator"}}

InitComentarios ==
    /\ df \in SeqsUpTo(RowsComentarios, MaxRowsComentarios)
                \cup {base \o recheio :
                         base \in SeqsUpTo(RowsComentarios, 1),
                         recheio \in Recheios}
    /\ columns \in IF df = <<>> THEN {{}, QueryColumns}
                   ELSE {QueryColumns, QueryColumns \ {"ultima_resposta"}}
    /\ op = "none"
    /\ arg = None
    /\ out = Return(None)

NextComentarios == Call_processar_comentarios_por_classificacao

SpecComentarios == InitComentarios /\ [][NextComentarios]_vars

---------------------------------------------------------------------------
(* Validation: a DataFrame of up to MaxRowsValidar rows whose columns are  *)
(* any of the mandatory ones and one more.                                 *)

InitValidar ==
    /\ df \in SeqsUpTo({[customer_id |-> 1], [customer_id |-> 2]}, MaxRowsValidar)
    /\ columns \in SUBSET ({colunas_obrigatorias[k] : k \in 1..6} \cup {"flag_alerta"})
    /\ op = "none"
    /\ arg = None
    /\ out = Return(None)

NextValidar == Call_validar_dados

SpecValidar == InitValidar /\ [][NextValidar]_vars

---------------------------------------------------------------------------
(* The dashboard: render passes of main().  op is the place of the pass    *)
(* in main, df and columns are the DataFrame main holds there (df_completo, *)
(* then df_filtrado), out is what the pass has put on the page and the     *)
(* metric functions it has called, in order, and arg is the rest: the      *)
(* clock, the cache of carregar_dados, the number of the pass and, for the *)
(* pass, whether credentials were found, whether the query was issued and  *)
(* what it gave, and the number of queries issued since the start.         *)

RowApp(classif, tipo) ==
    [customer_id              |-> 1,
     customer_name            |-> "A",
     classificacao_empresa    |-> classif,
     nota_media_empresa       |-> Num(80),
     qtd_frota                |-> Num(5),
     tipo_cliente             |-> tipo,
     faixa_frota              |-> "A",
     faixa_tempo_casa         |-> "X",
     flag_alerta              |-> "OK",
     comentarios_consolidados |-> NaN,
     ultima_resposta          |-> NaN,
     responsavel_cs           |-> None,
     lifecyclestage_descricao |-> None]

RowsApp == {RowApp("Promotor", None), RowApp("Detrator", "DAF")}

ColunasApp == QueryColumns \cup {"responsavel_cs", "lifecyclestage_descricao"}

(* What the query of carregar_dados can give: an error, or a DataFrame,    *)
(* which may be empty or lack a mandatory column.                          *)
Resultados ==
    {[erro |-> TRUE, df |-> <<>>, columns |-> {}]}
        \cup [erro : {FALSE},
              df : SeqsUpTo(RowsApp, MaxRowsApp),
              columns : {ColunasApp, ColunasApp \ {"classificacao_empresa"}}]

(* The selections tried in the sidebar: the default one, no type of client *)
(* selected, and only the classification Neutro selected.                  *)
Selecoes(d, cols) ==
    {selecao_padrao(d, cols),
     [selecao_padrao(d, cols) EXCEPT !.tipos = {}],
     [selecao_padrao(d, cols) EXCEPT !.classificacoes = {"Neutro"}]}

InitApp ==
    /\ df = <<>>
    /\ columns = {}
    /\ op = "carregar_dados"
    /\ arg = [relogio |-> 0, cache |-> <<>>, passes |-> 1,
              credenciais |-> TRUE, consulta |-> FALSE, consultas |-> 0,
              resposta |-> <<>>]
    /\ out = <<>>

(* df_completo = carregar_dados(): the cached DataFrame while it is valid, *)
(* otherwise the body is run, and its result is cached when it returns.    *)
Carregar_dados ==
    /\ op = "carregar_dados"
    /\ \/ /\ cache_valido(arg.cache, arg.relogio)
          /\ df' = arg.cache[1].df
          /\ columns' = arg.cache[1].columns
          /\ op' = "renderizar_sidebar"
          /\ UNCHANGED <<arg, out>>
       \/ /\ ~cache_valido(arg.cache, arg.relogio)
          /\ \E credenciais \in BOOLEAN, resultado \in Resultados :
                LET r == carregar_dados(credenciais, resultado)
                    resposta == IF credenciais THEN <<resultado>> ELSE <<>>
                IN  /\ out' = out \o r.exibido
                    /\ IF r.raised = "none"
                       THEN /\ df' = r.value.df
                            /\ columns' = r.value.columns
                            /\ op' = "renderizar_sidebar"
                            /\ arg' = [arg EXCEPT
                                  !.cache = <<[df |-> r.value.df,
                                               columns |-> r.value.columns,
                                               hora |-> arg.relogio]>>,
                                  !.credenciais = credenciais,
                                  !.consulta = credenciais,
                                  !.consultas = IF credenciais THEN @ + 1 ELSE @,
                                  !.resposta = resposta]
                       ELSE /\ op' = "parado"
                            /\ arg' = [arg EXCEPT
                                  !.credenciais = credenciais,
                                  !.consulta = credenciais,
                                  !.consultas = IF credenciais THEN @ + 1 ELSE @,
                                  !.resposta = resposta]
                            /\ UNCHANGED <<df, columns>>

(* df_filtrado = renderizar_sidebar(df_completo): Refresh calls            *)
(* limpar_cache (st.cache_data.clear(), st.rerun()), Limpar clears the     *)
(* session state and reruns; otherwise the filters are applied.            *)
Renderizar_sidebar ==
    /\ op = "renderizar_sidebar"
    /\ \E botao \in {"nenhum", "Refresh", "Limpar"}, sel \in Selecoes(df, columns) :
          IF botao = "Refresh"
          THEN /\ arg' = [arg EXCEPT !.cache = <<>>]
               /\ out' = out \o <<"limpar_cache">>
               /\ op' = "rerun"
               /\ UNCHANGED <<df, columns>>
          ELSE IF botao = "Limpar"
          THEN /\ op' = "rerun"
               /\ UNCHANGED <<df, columns, arg, out>>
          ELSE LET r == renderizar_sidebar(df, columns, sel)
               IN  /\ out' = out \o <<"renderizar_sidebar">>
                   /\ IF r.raised = "none"
                      THEN df' = r.value.df /\ op' = "renderizar_header"
                      ELSE df' = df /\ op' = "excecao"
                   /\ UNCHANGED <<columns, arg>>

(* renderizar_header(), then the test of df_filtrado.empty: a warning and  *)
(* return, or the tabs.                                                    *)
Renderizar_header ==
    /\ op = "renderizar_header"
    /\ IF empty(df, columns)
       THEN out' = out \o <<"renderizar_header", "st.warning">> /\ op' = "fim"
       ELSE out' = out \o <<"renderizar_header">>
               /\ op' = "renderizar_visao_executiva"
    /\ UNCHANGED <<df, columns, arg>>

Renderizar_visao_executiva ==
    /\ op = "renderizar_visao_executiva"
    /\ out' = out \o eventos(op, chamadas_visao_executiva(df, columns))
    /\ op' = IF falhou(chamadas_visao_executiva(df, columns))
             THEN "excecao" ELSE "renderizar_distribuicao_notas"
    /\ UNCHANGED <<df, columns, arg>>

Renderizar_distribuicao_notas ==
    /\ op = "renderizar_distribuicao_notas"
    /\ out' = out \o eventos(op, chamadas_distribuicao_notas(df, columns))
    /\ op' = IF falhou(chamadas_distribuicao_notas(df, columns))
             THEN "excecao" ELSE "renderizar_segmentacoes"
    /\ UNCHANGED <<df, columns, arg>>

Renderizar_segmentacoes ==
    /\ op = "renderizar_segmentacoes"
    /\ out' = out \o eventos(op, chamadas_segmentacoes(df, columns))
    /\ op' = IF falhou(chamadas_segmentacoes(df, columns))
             THEN "excecao" ELSE "renderizar_heatmap"
    /\ UNCHANGED <<df, columns, arg>>

Renderizar_heatmap ==
    /\ op = "renderizar_heatmap"
    /\ out' = out \o eventos(op, chamadas_heatmap(df, columns))
    /\ op' = IF falhou(chamadas_heatmap(df, columns))
             THEN "excecao" ELSE "renderizar_tabela_clientes"
    /\ UNCHANGED <<df, columns, arg>>

(* renderizar_tabela_clientes calls no metric function.                    *)
Renderizar_tabela_clientes ==
    /\ op = "renderizar_tabela_clientes"
    /\ out' = out \o <<op>>
    /\ op' = "renderizar_detratores_risco"
    /\ UNCHANGED <<df, columns, arg>>

Renderizar_detratores_risco ==
    /\ op = "renderizar_detratores_risco"
    /\ out' = out \o eventos(op, chamadas_detratores_risco(df, columns))
    /\ op' = IF falhou(chamadas_detratores_risco(df, columns))
             THEN "excecao" ELSE "renderizar_usuarios"
    /\ UNCHANGED <<df, columns, arg>>

(* The tabs of the inactive users and of the respondents, then the footer. *)
Renderizar_usuarios ==
    /\ op = "renderizar_usuarios"
    /\ out' = out \o <<"renderizar_usuarios_inativos",
                       "renderizar_usuarios_responderam">>
    /\ op' = "fim"
    /\ UNCHANGED <<df, columns, arg>>

(* The next run of the script, a second, just under an hour or an hour     *)
(* after the one before.                                                   *)
Nova_passagem ==
    /\ op \in {"fim", "parado", "excecao", "rerun"}
    /\ arg.passes < MaxPasses
    /\ \E espera \in {1, CACHE_TTL - 1, CACHE_TTL} :
          arg' = [arg EXCEPT !.relogio = arg.relogio + espera,
                             !.passes = arg.passes + 1,
                             !.credenciais = TRUE,
                             !.consulta = FALSE,
                             !.resposta = <<>>]
    /\ df' = <<>>
    /\ columns' = {}
    /\ out' = <<>>
    /\ op' = "carregar_dados"

NextApp ==
    \/ Carregar_dados
    \/ Renderizar_sidebar
    \/ Renderizar_header
    \/ Renderizar_visao_executiva
    \/ Renderizar_distribuicao_notas
    \/ Renderizar_segmentacoes
    \/ Renderizar_heatmap
    \/ Renderizar_tabela_clientes
    \/ Renderizar_detratores_risco
    \/ Renderizar_usuarios
    \/ Nova_passagem

SpecApp == InitApp /\ [][NextApp]_vars

---------------------------------------------------------------------------
(* The metric functions called one after the other on one DataFrame that  *)
(* the caller keeps: df and columns are that DataFrame as the calls leave  *)
(* it, arg holds the DataFrame as it was before the first call, the first  *)
(* result of each call and the number of calls made.  The sort of          *)
(* calcular_nps_por_segmento orders equal keys in one way for one input.   *)

RowsMetricas ==
    {[RowApp(c, t) EXCEPT !.nota_media_empresa = n] :
        c \in {"Promotor", "Detrator"}, t \in {None, "DAF"}, n \in {NaN, Num(75)}}

ChavesMetricas ==
    ({"calcular_nps", "calcular_nps_ponderado",
      "calcular_distribuicao_classificacao", "criar_distribuicao_notas",
      "criar_heatmap_data", "filtrar_detratores_prioritarios"} \X {None})
        \cup ({"calcular_nps_por_segmento"} \X {"tipo_cliente", "faixa_frota"})

InitMetricas ==
    /\ df \in SeqsUpTo(RowsMetricas, MaxRowsMetricas)
    /\ columns = ColunasApp
    /\ op = "none"
    /\ arg = [df |-> df, columns |-> columns, coluna |-> None, chamadas |-> 0,
              primeiro |-> [c \in ChavesMetricas |-> <<>>]]
    /\ out = Return(None)

(* The call of funcao (on coluna) gave resultado.                          *)
Chamou(funcao, coluna, resultado) ==
    /\ arg.chamadas < MaxChamadas
    /\ op' = funcao
    /\ out' = resultado
    /\ arg' = [arg EXCEPT
          !.coluna = coluna,
          !.chamadas = @ + 1,
          !.primeiro[<<funcao, coluna>>] = IF @ = <<>> THEN <<resultado>> ELSE @]

Chamar_calcular_nps ==
    /\ Chamou("calcular_nps", None, calcular_nps(df, columns))
    /\ UNCHANGED <<df, columns>>

Chamar_calcular_nps_ponderado ==
    /\ Chamou("calcular_nps_ponderado", None, calcular_nps_ponderado(df, columns))
    /\ UNCHANGED <<df, columns>>

Chamar_calcular_distribuicao_classificacao ==
    /\ Chamou("calcular_distribuicao_classificacao", None,
              calcular_distribuicao_classificacao(df, columns))
    /\ UNCHANGED <<df, columns>>

Chamar_criar_distribuicao_notas ==
    /\ Chamou("criar_distribuicao_notas", None, criar_distribuicao_notas(df, columns))
    /\ columns' = colunas_apos_criar_distribuicao_notas(df, columns)
    /\ UNCHANGED df

Chamar_calcular_nps_por_segmento ==
    \E coluna_segmento \in {"tipo_cliente", "faixa_frota"} :
        /\ Chamou("calcular_nps_por_segmento", coluna_segmento,
                  CHOOSE o \in calcular_nps_por_segmento(df, columns, coluna_segmento) :
                      TRUE)
        /\ UNCHANGED <<df, columns>>

Chamar_criar_heatmap_data ==
    /\ Chamou("criar_heatmap_data", None, criar_heatmap_data(df, columns))
    /\ UNCHANGED <<df, columns>>

Chamar_filtrar_detratores_prioritarios ==
    /\ Chamou("filtrar_detratores_prioritarios", None,
              filtrar_detratores_prioritarios(df, columns))
    /\ columns' = colunas_apos_filtrar_detratores_prioritarios(df, columns)
    /\ UNCHANGED df

NextMetricas ==
    \/ Chamar_calcular_nps
    \/ Chamar_calcular_nps_ponderado
    \/ Chamar_calcular_distribuicao_classificacao
    \/ Chamar_criar_distribuicao_notas
    \/ Chamar_calcular_nps_por_segmento
    \/ Chamar_criar_heatmap_data
    \/ Chamar_filtrar_detratores_prioritarios

SpecMetricas == InitMetricas /\ [][NextMetricas]_vars

---------------------------------------------------------------------------
(* The client table: main gives it a DataFrame that is not empty; the     *)
(* rows differ in classification, which may be outside the enum, and in    *)
(* fleet size, which may be missing and is given in tenths, as             *)
(* formatar_numero takes it (5, 50 and 1000 vehicles).                     *)

RowsTabela ==
    {[classificacao_empresa |-> c, qtd_frota |-> q] :
        c \in {"Detrator", "Neutro", "Promotor", "Outro"},
        q \in {NaN, Num(50), Num(500), Num(10000)}}

InitTabela ==
    /\ df \in SeqsUpTo(RowsTabela, MaxRowsTabela) \ {<<>>}
    /\ columns = ColunasApp
    /\ op = "none"
    /\ arg = None
    /\ out = Return(None)

NextTabela == Call_renderizar_tabela_clientes

SpecTabela == InitTabela /\ [][NextTabela]_vars

---------------------------------------------------------------------------
(* The sidebar: a loaded DataFrame that passed validar_dados; the rows     *)
(* differ in the type of client and in the person in charge, either of     *)
(* which may be null, and in classification, which may be outside the      *)
(* enum; the two optional columns may be absent.                           *)

RowsSidebar ==
    {[RowApp(c, t) EXCEPT !.responsavel_cs = r] :
        c \in {"Promotor", "Outro"}, t \in {None, "DAF"}, r \in {None, "Ana"}}

InitSidebar ==
    /\ df \in SeqsUpTo(RowsSidebar, MaxRowsSidebar) \ {<<>>}
    /\ columns \in {ColunasApp,
                    ColunasApp \ {"responsavel_cs", "lifecyclestage_descricao"}}
    /\ op = "none"
    /\ arg = None
    /\ out = Return(None)

NextSidebar == Call_renderizar_sidebar

SpecSidebar == InitSidebar /\ [][NextSidebar]_vars

---------------------------------------------------------------------------
(* Properties                                                              *)

Abs(x) == IF x < 0 THEN -x ELSE x

(* The rows of df whose column col holds v, counted on the row numbers.    *)
NumWith(col, v) == Cardinality({i \in DOMAIN df : df[i][col] = v})

(* r is a multiple of the rounding step nearest to num / den (den > 0).    *)
IsNearest(r, num, den) == 2 * Abs(r * den - num) <= den

(* C1: calcular_nps returns the Promotor percentage minus the Detrator     *)
(* percentage, both over the number of all rows (Neutro, null and unknown  *)
(* classifications included), rounded to one decimal.                      *)
C1_NpsIsRoundedDifference ==
    (op = "calcular_nps" /\ Len(df) > 0) =>
        /\ out.raised = "none"
        /\ IsNearest(out.value,
                     1000 * (NumWith("classificacao_empresa", "Promotor")
                             - NumWith("classificacao_empresa", "Detrator")),
                     Len(df))

C1_Witness ==
    /\ op = "calcular_nps"
    /\ df = <<Row("Promotor", Num(80), Num(1), "DAF", "A", "X"),
              Row(None, Num(80), Num(1), "DAF", "A", "X"),
              Row("Outro", Num(80), Num(1), "DAF", "A", "X")>>
    /\ out = Return(333)

(* C2: on an empty collection calcular_nps returns 0.0 and raises nothing. *)
C2_NpsEmptyIsZero ==
    (op = "calcular_nps" /\ Len(df) = 0) =>
        /\ out.raised = "none"
        /\ out.value = 0

C2_Witness ==
    /\ op = "calcular_nps"
    /\ df = <<>>
    /\ columns = {}
    /\ out = Return(0)

(* C3: the NPS lies in [-100, 100]; it is 100.0 when every row is a        *)
(* Promotor and -100.0 when every row is a Detrator.                       *)
C3_NpsRange ==
    op = "calcular_nps" =>
        /\ out.raised = "none"
        /\ out.value \in -1000..1000
        /\ (Len(df) > 0 /\ \A i \in DOMAIN df :
                df[i].classificacao_empresa = "Promotor") => out.value = 1000
        /\ (Len(df) > 0 /\ \A i \in DOMAIN df :
                df[i].classificacao_empresa = "Detrator") => out.value = -1000

C3_Witness ==
    /\ op = "calcular_nps"
    /\ Len(df) = 3
    /\ \A i \in DOMAIN df : df[i].classificacao_empresa = "Detrator"
    /\ out = Return(-1000)

(* C6: calcular_distribuicao_classificacao returns exactly the keys        *)
(* Promotor, Neutro and Detrator; each value is the share of the rows with *)
(* that classification among all rows, in percent rounded to one decimal,  *)
(* so a null or unknown classification enlarges the denominator only; on   *)
(* empty input the three values are 0.                                     *)
C6_DistribuicaoOverAllRows ==
    op = "calcular_distribuicao_classificacao" =>
        /\ out.raised = "none"
        /\ DOMAIN out.value = {"Promotor", "Neutro", "Detrator"}
        /\ \A c \in {"Promotor", "Neutro", "Detrator"} :
              IF Len(df) = 0 THEN out.value[c] = 0
              ELSE IsNearest(out.value[c],
                             1000 * NumWith("classificacao_empresa", c), Len(df))

C6_Witness ==
    /\ op = "calcular_distribuicao_classificacao"
    /\ Len(df) = 4
    /\ NumWith("classificacao_empresa", None) = 1
    /\ NumWith("classificacao_empresa", "Outro") = 1
    /\ out.value["Promotor"] = 250
    /\ out.value["Neutro"] = 0
    /\ out.value["Detrator"] = 250

(* The rows that hold both a note and a fleet size.                        *)
ComNotaEFrota ==
    {i \in DOMAIN df : df[i].nota_media_empresa # <<>> /\ df[i].qtd_frota # <<>>}

RECURSIVE SomaFrota(_)
SomaFrota(S) ==
    IF S = {} THEN 0
    ELSE LET i == CHOOSE x \in S : TRUE
         IN  df[i].qtd_frota[1] + SomaFrota(S \ {i})

RECURSIVE SomaNotaVezesFrota(_)
SomaNotaVezesFrota(S) ==
    IF S = {} THEN 0
    ELSE LET i == CHOOSE x \in S : TRUE
         IN  df[i].nota_media_empresa[1] * df[i].qtd_frota[1]
             + SomaNotaVezesFrota(S \ {i})

PesoTotal == SomaFrota(ComNotaEFrota)

NotaVezesFrota == SomaNotaVezesFrota(ComNotaEFrota)

TemColunasPonderado == {"qtd_frota", "nota_media_empresa"} \subseteq columns

(* C4: calcular_nps_ponderado returns sum(note * fleet) / sum(fleet) to    *)
(* two decimals, the sums taken over the rows that hold both a note and a  *)
(* fleet size; a row lacking either adds to neither sum.                   *)
C4_PonderadoOverCompleteRows ==
    (op = "calcular_nps_ponderado" /\ TemColunasPonderado /\ PesoTotal > 0) =>
        /\ out.raised = "none"
        /\ IsNearest(out.value, 10 * NotaVezesFrota, PesoTotal)

C4_Witness ==
    /\ op = "calcular_nps_ponderado"
    /\ TemColunasPonderado
    /\ df = <<Row("Neutro", Num(75), Num(1), "DAF", "A", "X"),
              Row("Neutro", NaN, Num(3), "DAF", "A", "X"),
              Row("Neutro", Num(80), NaN, "DAF", "A", "X")>>
    /\ out = Return(750)

(* C5: calcular_nps_ponderado returns 0.0, dividing nothing, when the      *)
(* input is empty, when no row holds both a note and a fleet size, and     *)
(* when the fleet sizes of the rows kept sum to zero.                      *)
C5_PonderadoDegenerateIsZero ==
    (op = "calcular_nps_ponderado"
       /\ (Len(df) = 0 \/ ComNotaEFrota = {} \/ PesoTotal = 0)) =>
        /\ out.raised = "none"
        /\ out.value = 0

C5_Witness ==
    /\ op = "calcular_nps_ponderado"
    /\ TemColunasPonderado
    /\ Cardinality(ComNotaEFrota) = 2
    /\ NotaVezesFrota = 0
    /\ PesoTotal = 0
    /\ \E i \in ComNotaEFrota : df[i].nota_media_empresa = <<80>>
    /\ out = Return(0)

RECURSIVE SomaQuantidade(_)
SomaQuantidade(rows) ==
    IF rows = <<>> THEN 0
    ELSE Head(rows).quantidade + SomaQuantidade(Tail(rows))

NotasPresentesNoIntervalo ==
    \A i \in DOMAIN df :
        /\ df[i].nota_media_empresa # <<>>
        /\ df[i].nota_media_empresa[1] >= 0
        /\ df[i].nota_media_empresa[1] <= 100

OnzeLinhas(rows) ==
    /\ Len(rows) = 11
    /\ \A k \in 1..11 : rows[k].nota = k - 1

(* C7: criar_distribuicao_notas returns, for every input, the empty one    *)
(* included, exactly 11 rows with nota 0, 1, ..., 10 in ascending order,   *)
(* and the quantities sum to the number of rows of the input whenever      *)
(* every row holds a note within [0, 10].                                  *)
C7_AlwaysElevenRows ==
    op = "criar_distribuicao_notas" =>
        /\ out.raised = "none"
        /\ OnzeLinhas(out.value)
        /\ ("nota_media_empresa" \in columns /\ NotasPresentesNoIntervalo)
              => SomaQuantidade(out.value) = Len(df)

(* What holds of criar_distribuicao_notas: the 11 rows, and their sum,     *)
(* whenever no row of the input lacks its note.                            *)
C7_ElevenRowsWhenNoNoteMissing ==
    (op = "criar_distribuicao_notas"
       /\ ("nota_media_empresa" \in columns =>
              \A i \in DOMAIN df : df[i].nota_media_empresa # <<>>)) =>
        /\ out.raised = "none"
        /\ OnzeLinhas(out.value)
        /\ ("nota_media_empresa" \in columns /\ NotasPresentesNoIntervalo)
              => SomaQuantidade(out.value) = Len(df)

(* The values of the segment column asked for that are not null.           *)
ValoresSegmento == {df[i][arg] : i \in DOMAIN df} \ {None}

LinhasDoSegmento(v) == {i \in DOMAIN df : df[i][arg] = v}

(* The NPS of the rows numbered in S, as a tenth nearest to it.            *)
NpsDe(nps, S) ==
    IsNearest(nps,
              1000 * (Cardinality({i \in S : df[i].classificacao_empresa = "Promotor"})
                      - Cardinality({i \in S : df[i].classificacao_empresa = "Detrator"})),
              Cardinality(S))

UmaLinhaPorSegmento(rows) ==
    /\ Len(rows) = Cardinality(ValoresSegmento)
    /\ {rows[k].segmento : k \in DOMAIN rows} = ValoresSegmento
    /\ \A k \in DOMAIN rows :
          /\ rows[k].quantidade = Cardinality(LinhasDoSegmento(rows[k].segmento))
          /\ NpsDe(rows[k].nps, LinhasDoSegmento(rows[k].segmento))
          /\ rows[k].nps = calcular_nps(df_segmento(df, arg, rows[k].segmento),
                                        columns).value
    /\ \A j, k \in DOMAIN rows : j < k => rows[j].nps >= rows[k].nps

(* C8: calcular_nps_por_segmento returns exactly one row per distinct      *)
(* value of the segment column that is not null; the row's nps is          *)
(* calcular_nps of the rows with that value and its quantidade their       *)
(* number; a row with a null segment belongs to no row of the result; the  *)
(* rows are in the order of nps descending.                                *)
C8_OneRowPerSegment ==
    (op = "calcular_nps_por_segmento" /\ arg \in columns) =>
        /\ out.raised = "none"
        /\ UmaLinhaPorSegmento(out.value)

(* What holds of calcular_nps_por_segmento: the same, on the inputs in     *)
(* which some row holds a segment value.                                   *)
C8_OneRowPerSegmentWhenSomeSegment ==
    (op = "calcular_nps_por_segmento" /\ arg \in columns
       /\ ValoresSegmento # {}) =>
        /\ out.raised = "none"
        /\ UmaLinhaPorSegmento(out.value)

(* C9: calcular_nps_por_segmento returns an empty result and raises        *)
(* nothing when the segment key is no column of the input, and when it is  *)
(* one but every segment value of the (non-empty) input is null.           *)
C9_EmptyResultWhenNoGroup ==
    (op = "calcular_nps_por_segmento"
       /\ (arg \notin columns \/ (Len(df) > 0 /\ ValoresSegmento = {}))) =>
        /\ out.raised = "none"
        /\ out.value = <<>>

(* What holds of calcular_nps_por_segmento: the empty result when the      *)
(* segment key is no column of the input.                                  *)
C9_EmptyResultWhenNoColumn ==
    (op = "calcular_nps_por_segmento" /\ arg \notin columns) =>
        /\ out.raised = "none"
        /\ out.value = <<>>

(* The pairs (faixa_frota, faixa_tempo_casa) a row can carry.              *)
Pares == {"A", "B"} \X {"X", "Y"}

LinhasDoPar(p) ==
    {i \in DOMAIN df : df[i].faixa_frota = p[1] /\ df[i].faixa_tempo_casa = p[2]}

LinhasComNotaDoPar(p) == {i \in LinhasDoPar(p) : df[i].nota_media_empresa # <<>>}

RECURSIVE SomaNotasDe(_)
SomaNotasDe(S) ==
    IF S = {} THEN 0
    ELSE LET i == CHOOSE x \in S : TRUE
         IN  df[i].nota_media_empresa[1] + SomaNotasDe(S \ {i})

(* The matrix holds a value for the pair p.                                *)
TemValor(matriz, p) ==
    /\ p \in DOMAIN matriz.values
    /\ matriz.values[p] # <<>>

(* The value the matrix holds for p is the mean of the notes of the rows   *)
(* numbered in S.                                                          *)
ValorEMedia(matriz, p, S) ==
    /\ TemValor(matriz, p)
    /\ matriz.values[p][2] > 0
    /\ matriz.values[p][1] * Cardinality(S) = SomaNotasDe(S) * matriz.values[p][2]

(* C10: criar_heatmap_data yields, for every pair (faixa_frota,            *)
(* faixa_tempo_casa) that at least one row carries, the mean of the notes  *)
(* of exactly the rows with that pair; a pair no row carries has no value, *)
(* unlike a pair whose mean is 0; empty input yields an empty structure.   *)
C10_MeanForEveryCarriedPair ==
    op = "criar_heatmap_data" =>
        /\ out.raised = "none"
        /\ Len(df) = 0 => out.value = [index |-> {}, columns |-> {}, values |-> <<>>]
        /\ \A p \in Pares :
              IF LinhasDoPar(p) # {}
              THEN ValorEMedia(out.value, p, LinhasComNotaDoPar(p))
              ELSE ~TemValor(out.value, p)

(* C10, amended: criar_heatmap_data yields, for every pair that at least   *)
(* one row holding a note carries, the mean of the notes of exactly the    *)
(* rows with that pair that hold a note; a pair carried by no row holding  *)
(* a note has no value, unlike a pair whose mean is 0; empty input yields  *)
(* an empty structure.                                                     *)
C10_MeanForEveryPairWithANote ==
    op = "criar_heatmap_data" =>
        /\ out.raised = "none"
        /\ Len(df) = 0 => out.value = [index |-> {}, columns |-> {}, values |-> <<>>]
        /\ \A p \in Pares :
              IF LinhasComNotaDoPar(p) # {}
              THEN ValorEMedia(out.value, p, LinhasComNotaDoPar(p))
              ELSE ~TemValor(out.value, p)

C10_Witness ==
    /\ op = "criar_heatmap_data"
    /\ Len(df) = 3
    /\ Cardinality(LinhasDoPar(<<"A", "X">>)) = 2
    /\ Cardinality(LinhasComNotaDoPar(<<"A", "X">>)) = 1
    /\ out.value.values[<<"A", "X">>] = <<0, 1>>
    /\ LinhasDoPar(<<"B", "Y">>) # {}
    /\ LinhasComNotaDoPar(<<"B", "Y">>) = {}
    /\ out.value.values[<<"B", "Y">>] = <<>>
    /\ out.value.values[<<"A", "Y">>] = <<>>

(* The rows of df that are Detrator.                                       *)
Detratores == {i \in DOMAIN df : df[i].classificacao_empresa = "Detrator"}

(* URGENTE = 1, ATENÇÃO = 2, OK, absent and any other value = 3.           *)
Prioridade(flag) ==
    IF flag = "URGENTE" THEN 1 ELSE IF flag = "ATENÇÃO" THEN 2 ELSE 3

(* C11: filtrar_detratores_prioritarios returns exactly the rows of the    *)
(* input that are Detrator, each once and unchanged, in an order in which  *)
(* the flag priority never decreases and, among rows of equal priority,    *)
(* the fleet size never increases (a missing fleet size comes last); the   *)
(* result is empty when there is no Detrator.                              *)
C11_DetratoresByPriority ==
    op = "filtrar_detratores_prioritarios" =>
        /\ out.raised = "none"
        /\ Len(out.value) = Cardinality(Detratores)
        /\ {out.value[k].index : k \in DOMAIN out.value} = Detratores
        /\ \A k \in DOMAIN out.value : out.value[k].row = df[out.value[k].index]
        /\ \A j, k \in DOMAIN out.value :
              j < k =>
                LET a == out.value[j].row
                    b == out.value[k].row
                IN  /\ Prioridade(a.flag_alerta) <= Prioridade(b.flag_alerta)
                    /\ (Prioridade(a.flag_alerta) = Prioridade(b.flag_alerta)
                          /\ b.qtd_frota # <<>>) =>
                         /\ a.qtd_frota # <<>>
                         /\ a.qtd_frota[1] >= b.qtd_frota[1]

C11_Witness ==
    /\ op = "filtrar_detratores_prioritarios"
    /\ df = <<RowAlerta("Detrator", None, Num(5)),
              RowAlerta("Detrator", "OUTRO", Num(9)),
              RowAlerta("Detrator", "URGENTE", Num(5))>>
    /\ out.raised = "none"
    /\ <<out.value[1].index, out.value[2].index, out.value[3].index>> = <<3, 2, 1>>

(* C12: the order of filtrar_detratores_prioritarios is stable: two        *)
(* Detrator rows of the same flag priority and the same fleet size are in  *)
(* the result in the order they have in the input.                         *)
C12_StableOrder ==
    op = "filtrar_detratores_prioritarios" =>
        /\ out.raised = "none"
        /\ \A j, k \in DOMAIN out.value :
              (/\ j < k
               /\ Prioridade(out.value[j].row.flag_alerta)
                    = Prioridade(out.value[k].row.flag_alerta)
               /\ out.value[j].row.qtd_frota = out.value[k].row.qtd_frota)
              => out.value[j].index < out.value[k].index

C12_Witness ==
    /\ op = "filtrar_detratores_prioritarios"
    /\ df = <<RowAlerta("Detrator", "OK", Num(5)),
              RowAlerta("Detrator", "URGENTE", Num(9)),
              RowAlerta("Detrator", None, Num(5))>>
    /\ out.raised = "none"
    /\ <<out.value[1].index, out.value[2].index, out.value[3].index>> = <<2, 1, 3>>

(* The text of the comment asked about, without the white space around it. *)
TextoAparado ==
    LET t == arg[1]
        dentro == {k \in DOMAIN t : t[k] # " "}
    IN  IF dentro = {} THEN <<>>
        ELSE SubSeq(t, CHOOSE k \in dentro : \A j \in dentro : k <= j,
                       CHOOSE k \in dentro : \A j \in dentro : j <= k)

EhLetra(c) == c \in {"a", "é"}

(* The runs of two letters or more of t, each named by its first position. *)
SequenciasDeLetras(t) ==
    {i \in DOMAIN t :
        /\ EhLetra(t[i])
        /\ i = 1 \/ ~EhLetra(t[i - 1])
        /\ i < Len(t) /\ EhLetra(t[i + 1])}

(* The last position of the run of letters that starts at i.               *)
FimDaSequencia(t, i) ==
    CHOOSE j \in i..Len(t) :
        /\ \A k \in i..j : EhLetra(t[k])
        /\ j = Len(t) \/ ~EhLetra(t[j + 1])

(* The runs of two letters or more that touch no digit and no underscore.  *)
PalavrasInteiras(t) ==
    {i \in SequenciasDeLetras(t) :
        /\ i = 1 \/ t[i - 1] \notin {"1", "_"}
        /\ FimDaSequencia(t, i) = Len(t) \/ t[FimDaSequencia(t, i) + 1] \notin {"1", "_"}}

(* The gates on the blank text, the length, the digits and the letters.    *)
PassaOutrosCrivos ==
    /\ arg # <<>>
    /\ TextoAparado # <<>>
    /\ Len(TextoAparado) > 3
    /\ \E k \in DOMAIN TextoAparado : TextoAparado[k] \notin {"1", " ", ".", ","}
    /\ Cardinality({k \in DOMAIN TextoAparado : EhLetra(TextoAparado[k])}) >= 10

(* C13: eh_comentario_valido accepts a text if and only if it is present   *)
(* and not blank, longer than 3 characters once trimmed, not all digits    *)
(* once spaces, periods and commas are removed, holds at least 2 runs of 2 *)
(* or more letters, and holds at least 10 letters; so a text whose runs of *)
(* letters touch digits or underscores is accepted.                        *)
C13_AcceptsIffFiveGates ==
    op = "eh_comentario_valido" =>
        /\ out.raised = "none"
        /\ out.value <=>
              /\ PassaOutrosCrivos
              /\ Cardinality(SequenciasDeLetras(TextoAparado)) >= 2

(* C13, amended: the same, the tokens being the runs of 2 or more letters  *)
(* that stand between word boundaries, that is that touch no digit and no  *)
(* underscore; a text is rejected when fewer than 2 of its runs of letters *)
(* are such words.                                                         *)
C13_AcceptsIffFiveGatesOnWholeWords ==
    op = "eh_comentario_valido" =>
        /\ out.raised = "none"
        /\ out.value <=>
              /\ PassaOutrosCrivos
              /\ Cardinality(PalavrasInteiras(TextoAparado)) >= 2

C13_Witness ==
    /\ op = "eh_comentario_valido"
    /\ arg = <<<<"a", "a", "a", "a", "a", "a", "a", "a", "1", " ", "a", "a">>>>
    /\ Cardinality(SequenciasDeLetras(TextoAparado)) = 2
    /\ Cardinality(PalavrasInteiras(TextoAparado)) = 1
    /\ PassaOutrosCrivos
    /\ out = Return(FALSE)

(* The records of classification c that hold a comment, not blank, which   *)
(* eh_comentario_valido accepts.                                           *)
ComComentario(c) ==
    {k \in DOMAIN df :
        /\ df[k].classificacao_empresa = c
        /\ df[k].comentarios_consolidados # <<>>
        /\ \E j \in DOMAIN df[k].comentarios_consolidados[1] :
              df[k].comentarios_consolidados[1][j] # " "
        /\ eh_comentario_valido(df[k].comentarios_consolidados)}

(* The time of the last answer of record k, <<>> when it has none.         *)
Resposta(k) ==
    IF "ultima_resposta" \in columns THEN df[k].ultima_resposta ELSE <<>>

(* The entry of the result that stands for record k.                       *)
Entrada(k) ==
    [empresa    |-> df[k].customer_name,
     nota       |-> df[k].nota_media_empresa,
     data       |-> formatar_data(Resposta(k)).value,
     comentario |-> df[k].comentarios_consolidados[1]]

Dias(r) == (r[1].ano * 12 + r[1].mes) * 31 + r[1].dia

(* Answer r is not later than answer s; no answer is later than none.      *)
NaoPosterior(r, s) == r = <<>> \/ (s # <<>> /\ Dias(r) <= Dias(s))

(* lista holds the first 20 of the records of c with a valid comment in an *)
(* order of descending ultima_resposta: it is as long as that, each entry  *)
(* stands for a record of its own, the answers never get later along the   *)
(* list, and no record left out has a later answer than one in the list.   *)
PrimeirosVinte(c, lista) ==
    LET validos == ComComentario(c)
        entrada == [k \in validos |-> Entrada(k)]
        resposta == [i \in DOMAIN lista |->
                        Resposta(CHOOSE k \in validos : entrada[k] = lista[i])]
        naLista == [k \in validos |->
                       Cardinality({i \in DOMAIN lista : lista[i] = entrada[k]})]
        naEntrada == [k \in validos |->
                         Cardinality({j \in validos : entrada[j] = entrada[k]})]
    IN  /\ Len(lista) = IF Cardinality(validos) < 20
                        THEN Cardinality(validos) ELSE 20
        /\ \A i \in DOMAIN lista : \E k \in validos : entrada[k] = lista[i]
        /\ \A k \in validos : naLista[k] <= naEntrada[k]
        /\ \A i, j \in DOMAIN lista :
              i < j => NaoPosterior(resposta[j], resposta[i])
        /\ \A k \in validos :
              naLista[k] < naEntrada[k]
                => \A i \in DOMAIN lista : NaoPosterior(Resposta(k), resposta[i])

(* C14: for each of Promotor, Neutro and Detrator the list returned by     *)
(* processar_comentarios_por_classificacao is the first 20 (or all, if     *)
(* fewer) of the records of that classification with a valid comment, in   *)
(* order of ultima_resposta descending, records without one last.          *)
C14_First20ByLastAnswer ==
    op = "processar_comentarios_por_classificacao" =>
        /\ out.raised = "none"
        /\ PrimeirosVinte("Promotor", out.value.Promotor)
        /\ PrimeirosVinte("Neutro", out.value.Neutro)
        /\ PrimeirosVinte("Detrator", out.value.Detrator)

C14_Witness ==
    /\ op = "processar_comentarios_por_classificacao"
    /\ "ultima_resposta" \in columns
    /\ Len(df) = 22
    /\ df[1] = RowComentario("Promotor", <<ComentarioValido>>,
                             <<Timestamp(1, 2, 2026)>>, "A")
    /\ df[2].classificacao_empresa = "Promotor"
    /\ out.raised = "none"
    /\ Len(out.value.Promotor) = 20
    /\ out.value.Promotor[1].empresa = "A"
    /\ \A i \in 2..20 : out.value.Promotor[i].empresa = "R"

(* The records of the input that have classification c.                    *)
SoClassificacao(c) == SelectSeq(df, LAMBDA r : r.classificacao_empresa = c)

(* C15: the list of one classification depends only on the records of that *)
(* classification: it is a list the function gives on the input without    *)
(* the records of every other classification, whatever those are and       *)
(* however many.                                                           *)
C15_ListDependsOnOwnRecords ==
    op = "processar_comentarios_por_classificacao" =>
        /\ out.raised = "none"
        /\ \E o \in processar_comentarios_por_classificacao(
                        SoClassificacao("Promotor"), columns) :
              o.raised = "none" /\ o.value.Promotor = out.value.Promotor
        /\ \E o \in processar_comentarios_por_classificacao(
                        SoClassificacao("Neutro"), columns) :
              o.raised = "none" /\ o.value.Neutro = out.value.Neutro
        /\ \E o \in processar_comentarios_por_classificacao(
                        SoClassificacao("Detrator"), columns) :
              o.raised = "none" /\ o.value.Detrator = out.value.Detrator

C15_Witness ==
    /\ op = "processar_comentarios_por_classificacao"
    /\ Len(df) = 22
    /\ df[1] = RowComentario("Detrator", <<ComentarioValido>>, NaN, "A")
    /\ df[2].classificacao_empresa = "Promotor"
    /\ out.raised = "none"
    /\ Len(out.value.Promotor) = 20
    /\ Len(out.value.Detrator) = 1
    /\ out.value.Detrator[1].empresa = "A"

(* C16: formatar_numero, formatar_data and truncar_texto each return "-"   *)
(* for a null input and do not raise.                                      *)
C16_NullGivesPlaceholder ==
    /\ (op = "formatar_numero" /\ arg.valor = <<>>) => out = Return(<<"-">>)
    /\ (op = "formatar_data" /\ arg.data = <<>>) => out = Return(<<"-">>)
    /\ (op = "truncar_texto" /\ arg.texto = <<>>) => out = Return(<<"-">>)

C16_Witness ==
    /\ op = "formatar_data"
    /\ arg.data = <<>>
    /\ out = Return(<<"-">>)

(* C17: truncar_texto(text, N) returns the text when it has at most N      *)
(* characters and otherwise its first N characters followed by "...";      *)
(* nothing is appended to a text that is not cut, and the result has at    *)
(* most N + 3 characters.                                                  *)
C17_TruncatesWithEllipsis ==
    (op = "truncar_texto" /\ arg.texto # <<>>) =>
        LET texto == arg.texto[1]
            N == arg.max_chars
        IN  /\ out.raised = "none"
            /\ Len(texto) <= N => out.value = texto
            /\ Len(texto) > N =>
                  /\ Len(out.value) = N + 3
                  /\ \A k \in 1..N : out.value[k] = texto[k]
                  /\ \A k \in (N + 1)..(N + 3) : out.value[k] = "."
            /\ Len(out.value) <= N + 3

C17_Witness ==
    /\ op = "truncar_texto"
    /\ arg.texto = <<<<"a", ".", "a", "a">>>>
    /\ arg.max_chars = 2
    /\ out = Return(<<"a", ".", ".", ".", ".">>)

(* The digits of n >= 0 in groups of three separated by ".".               *)
RECURSIVE PontoDeMilhar(_)
PontoDeMilhar(n) ==
    IF n < 1000 THEN str_int(n)
    ELSE PontoDeMilhar(n \div 1000)
             \o <<".", Algarismos[((n \div 100) % 10) + 1],
                       Algarismos[((n \div 10) % 10) + 1],
                       Algarismos[(n % 10) + 1]>>

(* The renderings in Brazilian locale of a value given in tenths: with no  *)
(* decimal place an integer nearest to the value, otherwise the integer    *)
(* part, "," and the decimal places; "-" before a negative value.          *)
EmLocaleBrasileiro(decimos, decimais) ==
    LET modulo == IF decimos < 0 THEN -decimos ELSE decimos
        sinal == IF decimos < 0 THEN <<"-">> ELSE <<>>
    IN  IF decimais = 0
        THEN {sinal \o PontoDeMilhar(n) :
                 n \in {n \in {modulo \div 10, (modulo \div 10) + 1} :
                          /\ 2 * (modulo - 10 * n) <= 10
                          /\ 2 * (10 * n - modulo) <= 10}}
        ELSE {sinal \o PontoDeMilhar(modulo \div 10)
                  \o <<",", Algarismos[(modulo % 10) + 1]>>
                  \o [k \in 1..(decimais - 1) |-> "0"]}

(* C18: formatar_numero renders a number in Brazilian locale, groups of    *)
(* three integer digits separated by ".", the decimal places after ",",    *)
(* then the suffix: 1000.5 with 1 decimal is "1.000,5".                    *)
C18_BrazilianLocale ==
    (op = "formatar_numero" /\ arg.valor # <<>>) =>
        /\ out.raised = "none"
        /\ \E numero \in EmLocaleBrasileiro(arg.valor[1], arg.decimais) :
              out.value = numero \o arg.sufixo

(* C18, the part that holds: without decimal places the number is rendered *)
(* in Brazilian locale: 1000 with suffix "%" is "1.000%".                  *)
C18_BrazilianLocaleWithoutDecimals ==
    (op = "formatar_numero" /\ arg.valor # <<>> /\ arg.decimais = 0) =>
        /\ out.raised = "none"
        /\ \E numero \in EmLocaleBrasileiro(arg.valor[1], 0) :
              out.value = numero \o arg.sufixo

(* The DD/MM/YYYY string of a date.                                        *)
DiaMesAno(d) ==
    <<Algarismos[(d.dia \div 10) + 1], Algarismos[(d.dia % 10) + 1], "/",
      Algarismos[(d.mes \div 10) + 1], Algarismos[(d.mes % 10) + 1], "/">>
        \o str_int(d.ano)

(* C19: formatar_data(d) is the DD/MM/YYYY string of the date d, and       *)
(* formatar_data of the DD/MM/YYYY string of a date is that string: the    *)
(* string is read back as the date it was made from.                       *)
C19_DateRoundTrip ==
    (op = "formatar_data" /\ arg.data # <<>>) =>
        /\ arg.data[1].tipo = "Timestamp" => out = Return(DiaMesAno(arg.data[1]))
        /\ (/\ arg.data[1].tipo = "str"
            /\ \E d \in DatasValidas : arg.data[1].texto = DiaMesAno(d))
              => out = Return(arg.data[1].texto)

(* C19, the part that holds: a Timestamp or datetime is rendered as its    *)
(* DD/MM/YYYY string, and so is the YYYY-MM-DD string of a date.           *)
C19_DateAsDiaMesAno ==
    (op = "formatar_data" /\ arg.data # <<>>) =>
        /\ arg.data[1].tipo = "Timestamp" => out = Return(DiaMesAno(arg.data[1]))
        /\ \A d \in DatasValidas :
              (arg.data[1].tipo = "str" /\ arg.data[1].texto = isoformat(d))
                 => out = Return(DiaMesAno(d))

Obrigatorias ==
    {"customer_id", "customer_name", "tipo_cliente",
     "qtd_frota", "nota_media_empresa", "classificacao_empresa"}

(* The dataset is empty: it has no row or no column.                       *)
Vazio == Len(df) = 0 \/ columns = {}

(* C20: validar_dados returns (True, "OK") exactly when the dataset is not *)
(* empty and has the six mandatory columns; otherwise it returns False and *)
(* a message, which says that the dataset is empty when it is, and         *)
(* otherwise names the mandatory columns that are missing, each once and   *)
(* no other.                                                               *)
C20_ValidIffAllMandatoryColumns ==
    op = "validar_dados" =>
        LET valido == out.value[1]
            mensagem == out.value[2]
            nomeadas == {k \in DOMAIN mensagem : mensagem[k] \in Obrigatorias}
        IN  /\ out.raised = "none"
            /\ valido <=> (~Vazio /\ Obrigatorias \subseteq columns)
            /\ valido <=> (mensagem = <<"OK">>)
            /\ Vazio => mensagem =
                  <<"DataFrame está vazio. Verifique a conexão com o BigQuery.">>
            /\ (~Vazio /\ ~valido) =>
                  /\ mensagem[1] = "Colunas faltando: "
                  /\ {mensagem[k] : k \in nomeadas} = Obrigatorias \ columns
                  /\ Cardinality(nomeadas) = Cardinality(Obrigatorias \ columns)

C20_Witness ==
    /\ op = "validar_dados"
    /\ Len(df) = 2
    /\ columns = {"customer_id", "customer_name", "flag_alerta"}
    /\ out = Return(<<FALSE, <<"Colunas faltando: ", "tipo_cliente", ", ",
                               "qtd_frota", ", ", "nota_media_empresa", ", ",
                               "classificacao_empresa">>>>)

(* The metric functions, by the names the pass records their calls under.  *)
FuncoesDeMetrica ==
    {"calcular_nps", "calcular_nps_ponderado",
     "calcular_distribuicao_classificacao", "criar_distribuicao_notas",
     "calcular_nps_por_segmento", "criar_heatmap_data",
     "filtrar_detratores_prioritarios"}

(* The load of this pass failed (no credentials, or the query gave an      *)
(* error), or the dataset it gave is empty or lacks a mandatory column.    *)
CargaFalhou ==
    \/ ~arg.credenciais
    \/ /\ arg.resposta # <<>>
       /\ \/ arg.resposta[1].erro
          \/ Len(arg.resposta[1].df) = 0
          \/ ~(Obrigatorias \subseteq arg.resposta[1].columns)

(* C21: in a render pass whose load fails or gives a dataset that fails    *)
(* validation, an error is shown and the pass halts at carregar_dados: it  *)
(* goes to no later place of main and calls no metric function.            *)
C21_HaltsBeforeMetrics ==
    (op # "carregar_dados" /\ CargaFalhou) =>
        /\ op = "parado"
        /\ \E k \in DOMAIN out : out[k] = "st.error"
        /\ \A k \in DOMAIN out : out[k] \notin FuncoesDeMetrica

C21_Witness ==
    /\ op = "parado"
    /\ arg.resposta # <<>>
    /\ ~arg.resposta[1].erro
    /\ Len(arg.resposta[1].df) = 2
    /\ "classificacao_empresa" \notin arg.resposta[1].columns
    /\ out = <<"st.error">>

C23_NeverRaises ==
    op \in {"calcular_nps_ponderado", "criar_distribuicao_notas",
            "calcular_nps_por_segmento", "criar_heatmap_data"}
        => out.raised = "none"

(* The calls that raise: criar_distribuicao_notas exactly when some record *)
(* has no note, calcular_nps_por_segmento exactly when the collection is   *)
(* not empty and no record has a value in the segment column.              *)
C23_Raises ==
    /\ op = "criar_distribuicao_notas" =>
          (out.raised # "none" <=>
              \E k \in DOMAIN df : df[k].nota_media_empresa = NaN)
    /\ op = "calcular_nps_por_segmento" =>
          (out.raised # "none" <=>
              /\ df # <<>>
              /\ \A k \in DOMAIN df : df[k][arg.coluna] = None)
    /\ op \in {"calcular_nps_ponderado", "criar_heatmap_data"} =>
          out.raised = "none"

(* A result cached less than CACHE_TTL seconds before the clock's time.    *)
ResultadoNaoExpirado(cache, relogio) ==
    cache # <<>> /\ relogio < cache[1].hora + CACHE_TTL

(* C24: carregar_dados issues the warehouse query only when no unexpired   *)
(* cached result exists, and then it does (on the first pass after the     *)
(* window of CACHE_TTL seconds expires, or after Refresh has cleared the   *)
(* cache); a pass that halts on a load or validation error caches nothing. *)
C24_QueryOncePerWindow ==
    [][op = "carregar_dados" =>
          /\ arg'.consulta => ~ResultadoNaoExpirado(arg.cache, arg.relogio)
          /\ (~ResultadoNaoExpirado(arg.cache, arg.relogio) /\ arg'.credenciais)
                => arg'.consulta
          /\ op' = "parado" =>
                /\ arg'.cache = arg.cache
                /\ ~ResultadoNaoExpirado(arg'.cache, arg'.relogio)]_vars

C24_Witness ==
    /\ arg.passes = 3
    /\ arg.relogio = CACHE_TTL
    /\ arg.consulta
    /\ arg.consultas = 2
    /\ arg.cache # <<>>
    /\ arg.cache[1].hora = CACHE_TTL
    /\ op = "renderizar_sidebar"

(* The integer nearest to a note given in tenths, the even one of the two  *)
(* when the note ends in .5.                                               *)
InteiroMaisProximo(n) ==
    CHOOSE b \in -2..12 :
        LET dist == IF n >= 10 * b THEN n - 10 * b ELSE 10 * b - n
        IN  dist < 5 \/ (dist = 5 /\ b % 2 = 0)

(* C25: criar_distribuicao_notas tallies each record in the bucket of the  *)
(* integer nearest to its note, a note ending in .5 going to the even      *)
(* neighbour (6.5 to 6, 7.5 to 8, 8.5 to 8); a record whose rounded note   *)
(* is outside 0..10 is counted in no bucket.  (Every record has a note.)   *)
C25_HalfEvenBuckets ==
    (/\ op = "criar_distribuicao_notas"
     /\ df # <<>>
     /\ "nota_media_empresa" \in columns
     /\ \A k \in DOMAIN df : df[k].nota_media_empresa # NaN)
        =>
        /\ out.raised = "none"
        /\ \A b \in 0..10 :
              out.value[b + 1].quantidade =
                  Cardinality({k \in DOMAIN df :
                      InteiroMaisProximo(df[k].nota_media_empresa[1]) = b})
        /\ \A k \in DOMAIN df :
              /\ df[k].nota_media_empresa = Num(65) => out.value[7].quantidade >= 1
              /\ df[k].nota_media_empresa = Num(75) => out.value[9].quantidade >= 1
              /\ df[k].nota_media_empresa = Num(85) => out.value[9].quantidade >= 1

C25_Witness ==
    /\ op = "criar_distribuicao_notas"
    /\ "nota_media_empresa" \in columns
    /\ {df[k].nota_media_empresa : k \in DOMAIN df} = {Num(65), Num(75), Num(106)}
    /\ out.raised = "none"
    /\ out.value[7].quantidade = 1
    /\ out.value[8].quantidade = 0
    /\ out.value[9].quantidade = 1
    /\ out.value[11].quantidade = 0

(* The place of a classification in the order Detrator, Neutro, Promotor.  *)
OrdemClassificacao(c) ==
    CASE c = "Detrator" -> 1 [] c = "Neutro" -> 2 [] c = "Promotor" -> 3

(* C26: the client table lists all Detrator rows first, then the Neutro    *)
(* rows, then the Promotor rows, and within one classification orders the  *)
(* rows by numeric fleet size descending.  (Violated: see                  *)
(* C26_OrderedByFleetText.)                                                *)
C26_DetractorsFirstThenFleet ==
    op = "renderizar_tabela_clientes" =>
        \A p, q \in DOMAIN out.value :
            LET a == df[out.value[p].indice]
                b == df[out.value[q].indice]
            IN  (/\ p < q
                 /\ a.classificacao_empresa \in Classificacoes
                 /\ b.classificacao_empresa \in Classificacoes)
                    =>
                    /\ OrdemClassificacao(a.classificacao_empresa)
                           <= OrdemClassificacao(b.classificacao_empresa)
                    /\ (/\ a.classificacao_empresa = b.classificacao_empresa
                        /\ a.qtd_frota # NaN
                        /\ b.qtd_frota # NaN)
                           => a.qtd_frota[1] >= b.qtd_frota[1]

(* What the table is ordered by: the text of the column Frota, descending  *)
(* as strings, whatever the classification; every row is in the table.     *)
C26_OrderedByFleetText ==
    op = "renderizar_tabela_clientes" =>
        /\ {out.value[p].indice : p \in DOMAIN out.value} = DOMAIN df
        /\ Len(out.value) = Len(df)
        /\ \A p, q \in DOMAIN out.value :
              p < q => ~str_menor(out.value[p].Frota, out.value[q].Frota)

(* The filters of the sidebar: the field of the selection and the column   *)
(* it is applied to.                                                       *)
FiltrosSidebar ==
    {<<"tipos", "tipo_cliente">>, <<"frotas", "faixa_frota">>,
     <<"tempos", "faixa_tempo_casa">>,
     <<"classificacoes", "classificacao_empresa">>,
     <<"responsaveis", "responsavel_cs">>,
     <<"lifecycles", "lifecyclestage_descricao">>}

(* The result holds rows of the input, in the input's order and each at    *)
(* most once, and every one satisfies every filter that selects something. *)
SubconjuntoFiltrado ==
    /\ out.raised = "none"
    /\ \A p \in DOMAIN out.value.indices :
          /\ out.value.indices[p] \in DOMAIN df
          /\ out.value.df[p] = df[out.value.indices[p]]
          /\ \A q \in DOMAIN out.value.indices :
                p < q => out.value.indices[p] < out.value.indices[q]
          /\ \A f \in FiltrosSidebar :
                arg[f[1]] # {} => df[out.value.indices[p]][f[2]] \in arg[f[1]]

(* C27: with every filter at its default renderizar_sidebar returns every  *)
(* row of the loaded dataset, rows with a null filter column and rows with *)
(* a classification outside the three included; for any selection the      *)
(* result is a subset of the input rows satisfying every non-empty filter. *)
(* (Violated: see C27_SubsetSatisfyingFilters.)                            *)
C27_DefaultKeepsEveryRow ==
    (op = "renderizar_sidebar" /\ out.raised # "RerunException") =>
        /\ SubconjuntoFiltrado
        /\ arg = selecao_padrao(df, columns) => out.value.df = df

(* What holds of every selection: the result is the subsequence of the     *)
(* input rows that satisfy every non-empty filter, no other row dropped.   *)
C27_SubsetSatisfyingFilters ==
    (op = "renderizar_sidebar" /\ out.raised # "RerunException") =>
        /\ SubconjuntoFiltrado
        /\ \A k \in DOMAIN df :
              (\A f \in FiltrosSidebar :
                  (arg[f[1]] # {} /\ f[2] \in columns) => df[k][f[2]] \in arg[f[1]])
                  => \E p \in DOMAIN out.value.indices : out.value.indices[p] = k

(* The sections of the main tab, in the order of main.                     *)
SecoesEmOrdem ==
    <<"renderizar_visao_executiva", "renderizar_distribuicao_notas",
      "renderizar_segmentacoes", "renderizar_heatmap",
      "renderizar_tabela_clientes", "renderizar_detratores_risco">>

TabsEFuncoes ==
    {SecoesEmOrdem[k] : k \in 1..6}
        \cup {"renderizar_usuarios_inativos", "renderizar_usuarios_responderam",
              "processar_comentarios_por_classificacao"}
        \cup FuncoesDeMetrica

(* The sections that the pass has rendered or begun to render, in order.   *)
SecoesDaPassagem ==
    SelectSeq(out, LAMBDA e : e \in {SecoesEmOrdem[k] : k \in 1..6})

(* The pass is past the test of df_filtrado.empty.                         *)
PassouDoTeste == \E k \in DOMAIN out : out[k] = "renderizar_header"

(* In a pass whose filtered dataset is empty a warning is shown and main   *)
(* returns: no metric function is called and no tab is rendered.           *)
C28_EmptyShowsWarning ==
    (PassouDoTeste /\ df = <<>>) =>
        /\ op = "fim"
        /\ out[Len(out)] = "st.warning"
        /\ \A k \in DOMAIN out : out[k] \notin TabsEFuncoes

(* C28: whenever the filtered dataset is empty the pass shows a warning    *)
(* and returns before any metric function is called and any tab rendered;  *)
(* whenever it is not empty, the sections are rendered in the order        *)
(* executive view, note distribution, segmentations, heatmap, client       *)
(* table, detractors.  (Violated: see C28_SectionsInOrderUntilOneRaises.)  *)
C28_WarningOrSixSections ==
    /\ C28_EmptyShowsWarning
    /\ (PassouDoTeste /\ df # <<>> /\ op \in {"fim", "excecao"}) =>
          SecoesDaPassagem = SecoesEmOrdem

(* What holds of a pass whose filtered dataset is not empty: the sections  *)
(* are begun in the fixed order, and all six are rendered unless a metric  *)
(* function raises, which ends the pass in that section.                   *)
C28_SectionsInOrderUntilOneRaises ==
    /\ C28_EmptyShowsWarning
    /\ (PassouDoTeste /\ df # <<>>) =>
          /\ SecoesDaPassagem = SubSeq(SecoesEmOrdem, 1, Len(SecoesDaPassagem))
          /\ op = "fim" => SecoesDaPassagem = SecoesEmOrdem
          /\ op = "excecao" =>
                /\ SecoesDaPassagem = <<SecoesEmOrdem[1], SecoesEmOrdem[2], SecoesEmOrdem[3]>>
                /\ out[Len(out)] = "calcular_nps_por_segmento"
                /\ \A k \in DOMAIN df : df[k].tipo_cliente = None

(* The Promotor percentage minus the Detrator percentage, as               *)
(* calcular_distribuicao_classificacao returns them for the collection     *)
(* (in tenths).                                                            *)
DiferencaDasPercentagens ==
    calcular_distribuicao_classificacao(df, columns).value["Promotor"]
        - calcular_distribuicao_classificacao(df, columns).value["Detrator"]

(* C29: for every collection the NPS returned by calcular_nps equals the   *)
(* Promotor percentage minus the Detrator percentage returned by           *)
(* calcular_distribuicao_classificacao.  (Violated: see                    *)
(* C29_HeadlineWithinOneTenth.)                                            *)
C29_HeadlineEqualsDifference ==
    (op = "calcular_nps" /\ out.raised = "none") =>
        out.value = DiferencaDasPercentagens

(* The NPS is the difference of the shares rounded once; each percentage   *)
(* is rounded on its own.  The two agree to within one tenth, and exactly  *)
(* when neither percentage needed rounding.                                *)
C29_HeadlineWithinOneTenth ==
    (op = "calcular_nps" /\ out.raised = "none") =>
        /\ out.value - DiferencaDasPercentagens \in {-1, 0, 1}
        /\ (df # <<>> /\ columns # {}) =>
              LET p == Cardinality({k \in DOMAIN df :
                           df[k].classificacao_empresa = "Promotor"})
                  t == Cardinality({k \in DOMAIN df :
                           df[k].classificacao_empresa = "Detrator"})
              IN  /\ out.value = RoundHalfEven((p - t) * 1000, Len(df))
                  /\ ((p * 1000) % Len(df) = 0 /\ (t * 1000) % Len(df) = 0)
                        => out.value = DiferencaDasPercentagens

C29_Witness ==
    /\ op = "calcular_nps"
    /\ Len(df) = 3
    /\ out = Return(-333)
    /\ DiferencaDasPercentagens = -334

(* C30: for every text that is not null eh_comentario_valido returns what  *)
(* its last two gates alone give: at least 2 word tokens (runs of 2 or     *)
(* more letters between word boundaries) and at least 10 letters.  The     *)
(* gates on the blank text, the length and the digits never change the     *)
(* outcome.                                                                *)
C30_LastTwoGatesDecide ==
    (op = "eh_comentario_valido" /\ arg # NaN) =>
        /\ out.raised = "none"
        /\ out.value <=>
              /\ Cardinality(PalavrasInteiras(arg[1])) >= 2
              /\ Cardinality({k \in DOMAIN arg[1] : EhLetra(arg[1][k])}) >= 10

C30_Witness ==
    /\ op = "eh_comentario_valido"
    /\ arg = <<<<"a", "a", "a", "a", "a", "a", "a", "a", " ", "é", "é">>>>
    /\ Cardinality(PalavrasInteiras(arg[1])) = 2
    /\ out = Return(TRUE)

====
